---- MODULE Spec2Model ----
(***************************************************************************)
(* Model of the retry discipline of the SauceDemo page objects.            *)
(*                                                                         *)
(* ProductPage.add_to_cart and ProductPage.remove_from_cart wrap a         *)
(* "check the button is visible, then click it" attempt in a for-loop of   *)
(* `retries` iterations with a one second sleep in the handler of the      *)
(* Playwright timeout.  The other page-object actions modelled here        *)
(* (LoginPage.click_login_button, HomePage.sort_products,                  *)
(* HomePage.add_product_to_cart_by_name) call BasePage.click_element or    *)
(* BasePage.select_dropdown_option directly.                               *)
(*                                                                         *)
(* One step of the model is one call into the browser (a wait_for, a       *)
(* click, a select_option) or one time.sleep; the answer of the browser    *)
(* is the input of the step.                                               *)
(***************************************************************************)
EXTENDS Integers, Sequences, FiniteSets, TLC

VARIABLES
    page,      \* the browser page under test: open, URL, login state, cart, sort
    method,    \* the page-object method being executed ("none" before any call)
    arg,       \* its argument (the sort option of sort_products), else "none"
    pc,        \* position inside the method
    attempt,   \* attempts started by this invocation (loop iterations begun)
    sleeps,    \* time.sleep(1) calls made by this invocation
    clicks,    \* element.click / select_option calls issued by this invocation
    error,     \* the exception the invocation raised to its caller, or NoError
    trace,     \* the browser calls and sleeps of this invocation, in order
    held,      \* whether the method's post-condition already held when called
    calls,     \* number of invocations started on this page
    sess,      \* the pytest session: fixtures, current test, reports, screenshots
    login,     \* the data-driven login loop and the browser it drives
    shop,      \* a shopping test: the application's cart and views, the calls made
    par,       \* two tests running side by side, each with its page and page object
    listing,   \* the product names the inventory page displays, and their check
    timed,     \* one invocation of an executor with the time its calls block
    bdd,       \* a session of scenarios whose steps ask for the page objects of conftest
    data,      \* the login test data file and a call of get_login_test_cases
    api,       \* a call of APIHelper and the reply of the server
    tables     \* test_data.py: the class-level tables and the dict a getter returned

\* The variables of a page-object invocation, and all of them.
execVars == <<page, method, arg, pc, attempt, sleeps, clicks, error, trace, held, calls>>
vars == <<execVars, sess, login, shop, par, listing, timed, bdd, data, api, tables>>

----------------------------------------------------------------------------
(* Bounds and program constants *)

\* Invocations made on one page in a run of the model.
MaxCalls == 3

\* Tests run in one pytest session in a run of the model.
MaxTests == 3

\* Login cases in the list the data-driven login test loops over.
MaxCases == 3

\* Add and remove calls one shopping test makes.
MaxOps == 3

\* Product names the inventory page displays at once.
MaxLen == 3

\* retries = 3 in ProductPage.add_to_cart and ProductPage.remove_from_cart.
retries == 3

----------------------------------------------------------------------------
(* Locators and call sites *)

ADD_TO_CART_BUTTON == "[data-test*='add-to-cart']"
REMOVE_BUTTON == "[data-test*='remove']"
LOGIN_BUTTON == "[data-test='login-button']"
PRODUCT_SORT_DROPDOWN == "[data-test='product_sort_container']"
ADD_BY_NAME_BUTTON == "[data-test='add-to-cart-{button_name}']"

SORT_NAME_ASC == "az"
SORT_NAME_DESC == "za"
SORT_PRICE_LOW_HIGH == "lohi"
SORT_PRICE_HIGH_LOW == "hilo"
SortOptions == {SORT_NAME_ASC, SORT_NAME_DESC, SORT_PRICE_LOW_HIGH, SORT_PRICE_HIGH_LOW}

\* The methods with a retry loop, and the methods that act once.
Executors == {"add_to_cart", "remove_from_cart"}
Direct == {"click_login_button", "sort_products", "add_product_to_cart_by_name"}
Methods == Executors \cup Direct

\* LocatorOf with add_to_cart pasted from remove_from_cart, locator included.
LocatorOf_Pasted(m) ==
    CASE m \in Executors -> REMOVE_BUTTON
      [] m = "click_login_button" -> LOGIN_BUTTON
      [] m = "sort_products" -> PRODUCT_SORT_DROPDOWN
      [] m = "add_product_to_cart_by_name" -> ADD_BY_NAME_BUTTON

\* The locator each method checks and acts on.
LocatorOf(m) ==
    CASE m = "add_to_cart" -> ADD_TO_CART_BUTTON
      [] m = "remove_from_cart" -> REMOVE_BUTTON
      [] m = "click_login_button" -> LOGIN_BUTTON
      [] m = "sort_products" -> PRODUCT_SORT_DROPDOWN
      [] m = "add_product_to_cart_by_name" -> ADD_BY_NAME_BUTTON

\* The message of the exception raised after the loop.
FailureMessage(m) ==
    IF m = "add_to_cart" THEN "Failed to add product to cart"
    ELSE "Failed to remove product from cart"

----------------------------------------------------------------------------
(* The page, as the application under test renders it *)

\* The element a locator names is in the DOM of the current page: the login
\* button on the login page, the sort dropdown on the inventory page, the
\* add button of a product that is not in the cart, the remove button of
\* one that is.
Present(loc, p) ==
    CASE loc = LOGIN_BUTTON -> ~p.loggedIn
      [] loc = PRODUCT_SORT_DROPDOWN -> p.loggedIn
      [] loc \in {ADD_TO_CART_BUTTON, ADD_BY_NAME_BUTTON} -> p.loggedIn /\ ~p.inCart
      [] loc = REMOVE_BUTTON -> p.loggedIn /\ p.inCart

\* What element.wait_for(state="visible") can answer: an element that is
\* present may still be late (timeout) and any call may fail otherwise.
WaitOutcomes(loc, p) ==
    IF Present(loc, p) THEN {"ok", "timeout", "error"} ELSE {"timeout", "error"}

\* What element.click / element.select_option can answer.
ActOutcomes == {"ok", "timeout", "error"}

\* The page after the action of method m registered.
Effect(m, a, p) ==
    CASE m \in {"add_to_cart", "add_product_to_cart_by_name"} -> [p EXCEPT !.inCart = TRUE]
      [] m = "remove_from_cart" -> [p EXCEPT !.inCart = FALSE]
      [] m = "click_login_button" -> [p EXCEPT !.loggedIn = TRUE, !.url = "inventory"]
      [] m = "sort_products" -> [p EXCEPT !.sort = a]

\* The post-condition of a method holds on page p.
PostHolds(m, a, p) ==
    CASE m \in {"add_to_cart", "add_product_to_cart_by_name"} -> p.inCart
      [] m = "remove_from_cart" -> ~p.inCart
      [] m = "click_login_button" -> p.loggedIn
      [] m = "sort_products" -> p.sort = a

----------------------------------------------------------------------------
(* Exceptions *)

NoError == [type |-> "None", args |-> <<>>, cause |-> "None"]

\* The exception a failed browser call raises: playwright's TimeoutError
\* for a timeout, its Error for anything else.
Raise(r) ==
    [type |-> IF r = "timeout" THEN "TimeoutError" ELSE "Error",
     args |-> <<"playwright">>, cause |-> "None"]

\* raise Exception("Failed to ..."), after the loop and outside any handler:
\* the message is its only argument and it has no cause.
LoopFailure(m) == [type |-> "Exception", args |-> <<FailureMessage(m)>>, cause |-> "None"]

Event(n, op, r) == [a |-> n, op |-> op, r |-> r]

----------------------------------------------------------------------------
(* The code, one operator per decision it takes *)

\* is_element_visible answering True whatever the wait did.
is_element_visible_Always(r) == TRUE

\* BasePage.is_element_visible: True when wait_for returned, False when it
\* raised anything (except Exception: return False).
is_element_visible(r) == r = "ok"

\* Catches with a handler that matches no exception the browser raises.
Catches_Nothing(m, e) == FALSE

\* The handler around an attempt: add_to_cart and remove_from_cart catch
\* PlaywrightTimeoutError and nothing else; the direct methods have no
\* try statement.
Catches(m, e) == m \in Executors /\ e.type = "TimeoutError"

\* HasNext with the loop running one iteration too many.
HasNext_OffByOne(n) == n <= retries

\* HasNext with the loop body run once, with no retry.
HasNext_Once(n) == n < 1

\* for _ in range(retries): another iteration starts after n of them.
HasNext(n) == n < retries

\* OnTimeout with a handler that reloads the page of the page object
\* (navigate_to(), inventory-item.html) before it retries.
OnTimeout_Reload(p) == [p EXCEPT !.url = "item"]

\* What the handler of the timeout does to the page: it only sleeps, the
\* page is neither closed nor navigated.
OnTimeout(p) == p

\* AfterAct with the return inside the loop left out.
AfterAct_NoReturn(m) == IF m \in Executors THEN "for" ELSE "Succeeded"

\* Where a method goes when its click or select_option returned: the
\* executors return from inside the loop, the direct methods at their end.
AfterAct(m) == "Succeeded"

\* AfterVisible with a visibility check that never answers when the button
\* is not there: the invocation stays blocked in it.
AfterVisible_Blocked(v) == IF v THEN "wait" ELSE "blocked"

\* AfterVisible with a False answer handled like a timeout: a backoff
\* before the next iteration.
AfterVisible_Sleep(v) == IF v THEN "wait" ELSE "sleep"

\* Where a method goes when is_element_visible answered v: into
\* click_element, or to the next iteration with no exception raised.
AfterVisible(v) == IF v THEN "wait" ELSE "for"

Terminal == {"Succeeded", "Raised"}

----------------------------------------------------------------------------
(* The pytest session of conftest.py *)

\* The products a test puts into the cart.
Products == {"Sauce Labs Backpack", "Sauce Labs Bike Light"}

\* The tests of the session, by what they do: the tests of TestE2EShopping
\* log in in their autouse setup and work on the cart in their body; the
\* test of TestLogin navigates in its setup, logs in in its body and then
\* asserts get_cart_item_count() == 0.
TestKinds == {"shopping", "login"}

NoReport == [when |-> "none", failed |-> FALSE]

\* Cookies and localStorage of a fresh browser context: nobody logged in,
\* an empty cart.
FreshStore == [user |-> FALSE, cart |-> {}]

SessInit ==
    [test |-> 0, kind |-> "none", phase |-> "idle",
     browser |-> "none", context |-> "none", pageOpen |-> FALSE,
     store |-> FreshStore, report |-> NoReport, reports |-> <<>>,
     shots |-> {}, runs |-> 0, seen |-> -1, page |-> 0, life |-> <<>>]

\* The fixtures of conftest.py a test with a page depends on, in the order
\* pytest sets them up: page needs context, context needs browser.
Fixtures == <<"browser", "context", "page">>

\* ScopeOf with the page fixture kept for the whole session.
ScopeOf_PageSession(f) == "session"

\* @pytest.fixture(scope=...) of each fixture.
ScopeOf(f) == IF f = "page" THEN "function" ELSE "session"

\* The value of fixture f is alive in session s.
Alive(f, s) ==
    CASE f = "browser" -> s.browser = "open"
      [] f = "context" -> s.context = "open"
      [] f = "page" -> s.pageOpen

\* The code of the fixtures up to their yield that pytest runs for a test:
\* of every function-scoped fixture, and of a session-scoped one that has
\* no value yet.
RECURSIVE SetupEvents(_, _, _)
SetupEvents(fs, s, n) ==
    IF fs = <<>> THEN <<>>
    ELSE (IF ScopeOf(Head(fs)) = "function" \/ ~Alive(Head(fs), s)
          THEN <<[ev |-> "open", f |-> Head(fs), test |-> n]>> ELSE <<>>)
         \o SetupEvents(Tail(fs), s, n)

\* The code after the yield of the fixtures of one scope that are alive,
\* run in the reverse of the setup order.
RECURSIVE TeardownEvents(_, _, _, _)
TeardownEvents(fs, s, n, scope) ==
    IF fs = <<>> THEN <<>>
    ELSE TeardownEvents(Tail(fs), s, n, scope)
         \o (IF ScopeOf(Head(fs)) = scope /\ Alive(Head(fs), s)
             THEN <<[ev |-> "close", f |-> Head(fs), test |-> n]>> ELSE <<>>)

\* The state of fixture f after the teardown of the fixtures of a scope.
AfterTeardown(f, s, scope, closed) ==
    IF ScopeOf(f) = scope /\ Alive(f, s) THEN closed
    ELSE CASE f = "browser" -> s.browser
           [] f = "context" -> s.context
           [] f = "page" -> s.pageOpen

\* ShouldCapture with the hook looking at the teardown report.
ShouldCapture_Teardown(r, hasPage) == r.when = "teardown" /\ hasPage

\* pytest_runtest_makereport: the hook takes a screenshot for a failed
\* report of the call phase of a test that has the page fixture.
ShouldCapture(r, hasPage) == r.when = "call" /\ r.failed /\ hasPage

\* The storage a new page starts with: context.new_page() opens the page
\* in the one context of the session, so it sees what earlier pages of
\* that context stored.
StoreOfNewPage(context_store) == context_store

\* The number get_cart_item_count reads from the cart badge.
BadgeCount(store) == Cardinality(store.cart)

----------------------------------------------------------------------------
(* The login flow of test_login.py *)

\* A login case: whether the application accepts its credentials, and the
\* expected_result of the case ("success", or one of the error results).
LoginCases ==
    { [valid |-> TRUE, expected |-> "success"],
      [valid |-> FALSE, expected |-> "locked_out"],
      [valid |-> FALSE, expected |-> "invalid_credentials"] }

\* The lists of login cases of at most n cases.
CaseLists(n) == UNION { [1..k -> LoginCases] : k \in 1..n }

LoginInit ==
    [pc |-> "idle", cases |-> <<>>, i |-> 0,
     url |-> "login", nav |-> "none", errorShown |-> FALSE,
     saved |-> "none", exc |-> "none", arrived |-> FALSE]

\* The predicate wait_for_url_change hands to page.wait_for_url:
\* lambda url: url != current_url.
UrlChanged(url, current_url) == url # current_url

\* assert "inventory.html" in current_url.
OnInventory(url) == url = "inventory"

----------------------------------------------------------------------------
(* The inventory and product pages of test_e2e_shopping.py.  Texts the code
   converts are sequences of characters. *)

\* "Sauce Labs Backpack" and the data-test suffix of its buttons, "sauce-labs-backpack".
Backpack ==
    [name |-> <<"S", "a", "u", "c", "e", " ", "L", "a", "b", "s", " ", "B",
              "a", "c", "k", "p", "a", "c", "k">>,
     data_test |-> <<"s", "a", "u", "c", "e", "-", "l", "a", "b", "s", "-", "b",
                   "a", "c", "k", "p", "a", "c", "k">>,
     price |-> "$29.99",
     description |-> "about the Sauce Labs Backpack"]

\* "Sauce Labs Bike Light" and the data-test suffix of its buttons, "sauce-labs-bike-light".
BikeLight ==
    [name |-> <<"S", "a", "u", "c", "e", " ", "L", "a", "b", "s", " ", "B",
              "i", "k", "e", " ", "L", "i", "g", "h", "t">>,
     data_test |-> <<"s", "a", "u", "c", "e", "-", "l", "a", "b", "s", "-", "b",
                   "i", "k", "e", "-", "l", "i", "g", "h", "t">>,
     price |-> "$9.99",
     description |-> "about the Sauce Labs Bike Light"]

\* "Sauce Labs Bolt T-Shirt" and the data-test suffix of its buttons, "sauce-labs-bolt-t-shirt".
BoltTShirt ==
    [name |-> <<"S", "a", "u", "c", "e", " ", "L", "a", "b", "s", " ", "B",
              "o", "l", "t", " ", "T", "-", "S", "h", "i", "r", "t">>,
     data_test |-> <<"s", "a", "u", "c", "e", "-", "l", "a", "b", "s", "-", "b",
                   "o", "l", "t", "-", "t", "-", "s", "h", "i", "r", "t">>,
     price |-> "$15.99",
     description |-> "about the Sauce Labs Bolt T-Shirt"]

\* The inventory list in the order the page shows it.
Inventory == <<Backpack, BikeLight, BoltTShirt>>

Catalog == { Inventory[k] : k \in DOMAIN Inventory }

ProductNames == { q.name : q \in Catalog }

\* The product a name belongs to.
ProductOf(product_name) == CHOOSE q \in Catalog : q.name = product_name

UpperCase ==
    <<"A", "B", "C", "D", "E", "F", "G", "H", "I", "J", "K", "L", "M",
      "N", "O", "P", "Q", "R", "S", "T", "U", "V", "W", "X", "Y", "Z">>

LowerCase ==
    <<"a", "b", "c", "d", "e", "f", "g", "h", "i", "j", "k", "l", "m",
      "n", "o", "p", "q", "r", "s", "t", "u", "v", "w", "x", "y", "z">>

\* str.lower(): every upper-case letter becomes its lower-case letter.
lower(text) ==
    [k \in 1..Len(text) |->
        IF \E u \in 1..26 : UpperCase[u] = text[k]
        THEN LowerCase[CHOOSE u \in 1..26 : UpperCase[u] = text[k]]
        ELSE text[k]]

\* str.replace(old, new) for one-character strings.
replace(text, old, new) ==
    [k \in 1..Len(text) |-> IF text[k] = old THEN new ELSE text[k]]

\* button_name with the spaces replaced by underscores.
button_name_Underscore(product_name) == replace(lower(product_name), " ", "_")

\* button_name = product_name.lower().replace(" ", "-").
button_name(product_name) == replace(lower(product_name), " ", "-")

\* Locators: a kind and, for the buttons and links of one product, its text.
add_button_locator(product_name) ==
    [kind |-> "add-to-cart", text |-> button_name(product_name)]

remove_button_locator(product_name) ==
    [kind |-> "remove", text |-> button_name(product_name)]

product_locator(product_name) == [kind |-> "item-name", text |-> product_name]

SHOPPING_CART_BADGE == [kind |-> "badge", text |-> <<>>]
BACK_TO_PRODUCTS == [kind |-> "back-to-products", text |-> <<>>]
PRODUCT_NAME == [kind |-> "detail-name", text |-> <<>>]
PRODUCT_IMAGE == [kind |-> "detail-img", text |-> <<>>]
PRODUCT_PRICE == [kind |-> "detail-price", text |-> <<>>]
PRODUCT_DESCRIPTION == [kind |-> "detail-desc", text |-> <<>>]

\* The elements the application shows: on the inventory page, for every
\* product, its name and its add button, or its remove button once it is in
\* the cart; on the product page the details and the back button; on both
\* the cart badge when the cart is not empty.
Elements(s) ==
    (IF s.cart = {} THEN {} ELSE {SHOPPING_CART_BADGE})
    \cup
    (IF s.view = "inventory"
     THEN { [kind |-> "item-name", text |-> q.name] : q \in Catalog }
          \cup { [kind |-> "add-to-cart", text |-> q.data_test] :
                    q \in { r \in Catalog : r.name \notin s.cart } }
          \cup { [kind |-> "remove", text |-> q.data_test] :
                    q \in { r \in Catalog : r.name \in s.cart } }
     ELSE {BACK_TO_PRODUCTS, PRODUCT_NAME, PRODUCT_IMAGE, PRODUCT_PRICE,
           PRODUCT_DESCRIPTION})

Digits == <<"0", "1", "2", "3", "4", "5", "6", "7", "8", "9">>

\* The decimal text the application writes in the badge.
RECURSIVE Decimal(_)
Decimal(n) ==
    IF n < 10 THEN <<Digits[n + 1]>>
    ELSE Append(Decimal(n \div 10), Digits[(n % 10) + 1])

\* The text of an element, as text_content() returns it for the badge.
BadgeText(s) == Decimal(Cardinality(s.cart))

\* str.isdigit(): not empty and digits only.
isdigit(text) ==
    /\ Len(text) > 0
    /\ \A k \in 1..Len(text) : \E d \in 1..10 : Digits[d] = text[k]

\* int(text) for a text of digits.
RECURSIVE int(_)
int(text) ==
    IF Len(text) = 0 THEN 0
    ELSE 10 * int(SubSeq(text, 1, Len(text) - 1))
         + (CHOOSE d \in 1..10 : Digits[d] = text[Len(text)]) - 1

\* The parameters of BasePage.wait_for_element after self.
wait_for_element_params == {"locator", "state"}

\* wait_for_element called with the keyword arguments kwargs: the call
\* binds only keywords that are parameters (TypeError otherwise), then the
\* locator is waited for.
wait_for_element(locator, kwargs, s) ==
    IF ~(kwargs \subseteq wait_for_element_params) THEN "TypeError"
    ELSE IF locator \in Elements(s) THEN "ok"
    ELSE "TimeoutError"

\* What the application does with a click on an element.
ClickEffect(locator, s) ==
    CASE locator.kind = "add-to-cart" ->
            [s EXCEPT !.cart = @ \cup
                { q.name : q \in { r \in Catalog : r.data_test = locator.text } }]
      [] locator.kind = "remove" ->
            [s EXCEPT !.cart = @ \
                { q.name : q \in { r \in Catalog : r.data_test = locator.text } }]
      [] locator.kind = "item-name" ->
            [s EXCEPT !.view = "item", !.item = locator.text]
      [] locator.kind = "back-to-products" ->
            [s EXCEPT !.view = "inventory", !.item = <<>>]
      [] OTHER -> s

\* click_element: wait_for_element(locator), then the click; the exception
\* of the wait leaves the test.
click_element(locator, s) ==
    LET r == wait_for_element(locator, {}, s) IN
    IF r = "ok" THEN ClickEffect(locator, s) ELSE [s EXCEPT !.exc = r]

\* HomePage.get_cart_item_count.
get_cart_item_count(s) ==
    IF is_element_visible(wait_for_element(SHOPPING_CART_BADGE, {}, s))
    THEN LET badge_text == BadgeText(s) IN
         IF isdigit(badge_text) THEN int(badge_text) ELSE 0
    ELSE 0

\* HomePage.is_product_in_cart.
is_product_in_cart(product_name, s) ==
    is_element_visible(wait_for_element(remove_button_locator(product_name), {}, s))

\* The indexes a test may pass: before the first item, the items, and one
\* past the last.
Indexes == (0 - 2)..Len(Inventory)

\* locator.nth(index) on a list of count items: the position of the item
\* it picks, 0 when it picks none.  It counts from 0; -1 is the last item
\* (locator.last); what another negative index picks is not defined by the
\* library: nothing, or the item counted from the end.
nth(count, index) ==
    IF index >= 0 THEN (IF index < count THEN {index + 1} ELSE {0})
    ELSE IF index = 0 - 1 THEN (IF count > 0 THEN {count} ELSE {0})
    ELSE {0} \cup (IF count + index >= 0 THEN {count + index + 1} ELSE {})

NoObservation == [m |-> "none", text |-> <<>>, n |-> 0, ret |-> 0]

NoDetails == [name |-> <<>>, price |-> "", description |-> ""]

\* After setup: logged in, on the inventory page, the cart empty.
ShopInit ==
    [view |-> "inventory", item |-> <<>>, cart |-> {}, log |-> <<>>,
     exc |-> "none", last |-> "none", obs |-> NoObservation,
     info |-> NoDetails, details |-> NoDetails]

----------------------------------------------------------------------------
(* Two tests running side by side *)

Workers == {1, 2}

\* FrameOf with one set of loop variables for all invocations, as
\* attributes of the class would be.
FrameOf_Shared(w) == 1

\* The frame that holds the variables of the invocation of worker w:
\* retries and the loop counter are locals of the call.
FrameOf(w) == w

\* The page the page object of worker w drives: the page fixture of its
\* own test, handed to ProductPage(page).
PageOf(w) == w

\* Each test logged in on its own page; no invocation has started.
ParInit ==
    [inv |-> [w \in Workers |->
                [method |-> "none", pc |-> "Idle", error |-> NoError, trace |-> <<>>]],
     frame |-> [w \in Workers |-> [attempt |-> 0, sleeps |-> 0]],
     pages |-> [w \in Workers |->
                [open |-> TRUE, url |-> "inventory", loggedIn |-> TRUE,
                 inCart |-> FALSE, sort |-> SORT_NAME_ASC]]]

----------------------------------------------------------------------------
(* The sort checks of HomePage *)

\* Names a page may display, as sequences of characters: names that are
\* equal, that are prefixes of one another, and that differ in case.
DisplayNames == { <<"a">>, <<"a", "b">>, <<"b">>, <<"B">> }

\* The code point of a character.
ord(c) == CASE c = "B" -> 66 [] c = "a" -> 97 [] c = "b" -> 98

\* x < y for str: at the first position where they differ the code point
\* of x is smaller, or x is a proper prefix of y.
StrLess(x, y) ==
    \/ \E k \in 1..Len(x) :
          /\ k <= Len(y)
          /\ \A j \in 1..(k - 1) : x[j] = y[j]
          /\ ord(x[k]) < ord(y[k])
    \/ /\ Len(x) < Len(y)
       /\ \A j \in 1..Len(x) : x[j] = y[j]

\* The list with name put behind the last element that is not after it.
RECURSIVE Insert(_, _)
Insert(name, sorted_names) ==
    IF sorted_names = <<>> THEN <<name>>
    ELSE IF StrLess(name, Head(sorted_names))
         THEN <<name>> \o sorted_names
         ELSE <<Head(sorted_names)>> \o Insert(name, Tail(sorted_names))

\* sorted(product_names): the names in ascending order.
RECURSIVE sorted(_)
sorted(product_names) ==
    IF product_names = <<>> THEN <<>>
    ELSE Insert(product_names[Len(product_names)],
                sorted(SubSeq(product_names, 1, Len(product_names) - 1)))

\* sorted_reverse with reverse=True left out.
sorted_reverse_Ascending(product_names) == sorted(product_names)

\* sorted(product_names, reverse=True): the names in descending order.
sorted_reverse(product_names) ==
    LET asc == sorted(product_names) IN
    [k \in 1..Len(asc) |-> asc[Len(asc) + 1 - k]]

\* The assertion of verify_products_sorted_by_name_asc.
verify_products_sorted_by_name_asc(product_names) ==
    IF product_names = sorted(product_names) THEN "passed" ELSE "AssertionError"

\* The assertion of verify_products_sorted_by_name_desc.
verify_products_sorted_by_name_desc(product_names) ==
    IF product_names = sorted_reverse(product_names) THEN "passed" ELSE "AssertionError"

ListingInit == [names |-> <<>>, check |-> "none", result |-> "none"]

----------------------------------------------------------------------------
(* Time: how long the calls of an attempt may block, in milliseconds *)

\* Config.DEFAULT_TIMEOUT, which BasePage keeps as self.timeout and the
\* page fixture sets as the default timeout of the page.
DEFAULT_TIMEOUT == 30000

\* The timeout add_to_cart / remove_from_cart give is_element_visible.
VISIBLE_TIMEOUT == 3000

\* The timeout each blocking call of an attempt runs under:
\* is_element_visible the one of the call site, wait_for_element
\* self.timeout, element.click the default timeout of the page.
TimeoutOf(op) ==
    CASE op = "visible" -> VISIBLE_TIMEOUT
      [] op = "wait" -> DEFAULT_TIMEOUT
      [] op = "act" -> DEFAULT_TIMEOUT

\* time.sleep(1) in the handler of attempt n.
BackoffDelay(n) == 1000

\* The times a call may take before it answers.
Durations == {1000, 3000, 5000, 30000}

\* The answers of a blocking call under timeout t and the time each took:
\* an answer or an error before the timeout, the timeout at its end.
TimedOutcomes(t) ==
    { [r |-> r, d |-> d] : r \in {"ok", "error"}, d \in {x \in Durations : x < t} }
    \cup { [r |-> "timeout", d |-> t] }

TimedInit ==
    [method |-> "none", pc |-> "Idle", attempt |-> 0, error |-> NoError,
     waits |-> <<>>, sleeps |-> <<>>]

----------------------------------------------------------------------------
(* The page-object fixtures of conftest.py, as the steps of a scenario ask
   for them *)

PageObjectFixtures == {"login_page", "home_page", "product_page", "cart_page"}

\* pytest's answer to a fixture f that asks for fixture dep: a fixture of
\* the session cannot ask for one that lives for a single test.
Resolve(f, dep) ==
    IF ScopeOf(f) = "session" /\ ScopeOf(dep) = "function"
    THEN "ScopeMismatch" ELSE "ok"

\* No page object made yet, no page open, no scenario started.
BddInit ==
    [test |-> 0, phase |-> "idle", steps |-> 0, page |-> 0, pageOpen |-> FALSE,
     objects |-> [f \in PageObjectFixtures |-> 0],
     error |-> "none", log |-> <<>>]

----------------------------------------------------------------------------
(* The test data of utils/helpers.py *)

LoginRow(u, p, e) == [username |-> u, password |-> p, expected_result |-> e]

\* TestDataManager._get_default_login_data.
DefaultLoginData ==
    << LoginRow("standard_user", "secret_sauce", "success"),
       LoginRow("locked_out_user", "secret_sauce", "locked_out"),
       LoginRow("problem_user", "secret_sauce", "success"),
       LoginRow("performance_glitch_user", "secret_sauce", "success"),
       LoginRow("invalid_user", "secret_sauce", "invalid_credentials"),
       LoginRow("standard_user", "wrong_password", "invalid_credentials"),
       LoginRow("", "secret_sauce", "username_required"),
       LoginRow("standard_user", "", "password_required") >>

\* Rows in login_test_data.csv.
MaxRows == 2

\* Assignments a caller makes to the dicts the test-data getters return.
MaxWrites == 2

\* Rows a CSV file may hold.
CsvRows == { LoginRow("standard_user", "secret_sauce", "success"),
             LoginRow("csv_user", "csv_password", "invalid_credentials") }

\* What may be at the path of login_test_data.csv: nothing, a CSV file
\* that can be read, a file the process may not read, a file that is empty
\* or is not CSV, a directory.
FileStates == {"missing", "ok", "denied", "empty", "malformed", "directory"}

\* os.path.exists(csv_file).
exists(file) == file.status # "missing"

\* pd.read_csv(file_path) followed by df.to_dict('records'): the rows of
\* the file, or the exception raised.
read_csv(file) ==
    CASE file.status = "ok" -> [exc |-> "none", rows |-> file.rows]
      [] file.status = "missing" -> [exc |-> "FileNotFoundError", rows |-> <<>>]
      [] file.status = "denied" -> [exc |-> "PermissionError", rows |-> <<>>]
      [] file.status = "empty" -> [exc |-> "EmptyDataError", rows |-> <<>>]
      [] file.status = "malformed" -> [exc |-> "ParserError", rows |-> <<>>]
      [] file.status = "directory" -> [exc |-> "IsADirectoryError", rows |-> <<>>]

\* CsvHandler with a handler for the missing file only.
CsvHandler_NotFoundOnly(e) == e = "FileNotFoundError"

\* The handler of _read_csv_data, except Exception: it takes every
\* exception reading the file raises.
CsvHandler(e) == e # "none"

NoFile == [status |-> "missing", rows |-> <<>>]

DataInit ==
    [file |-> NoFile, pc |-> "idle", existed |-> FALSE, read |-> NoFile,
     result |-> <<>>, exc |-> "none"]

----------------------------------------------------------------------------
(* APIHelper of utils/helpers.py *)

Verbs == {"get", "post", "put", "delete"}

\* The keyword arguments the tests pass on: none, or json_data as
\* test_api_user_creation and test_api_user_update do.
KeywordSets == { {}, {"json_data"} }

\* The keyword arguments requests.Session.get / post / put / delete take.
RequestParams ==
    {"params", "data", "json", "headers", "cookies", "files", "auth", "timeout",
     "allow_redirects", "proxies", "hooks", "stream", "verify", "cert"}

StatusCodes == {200, 201, 204, 404, 500}

\* Bodies of a reply: a JSON document, nothing, a page of HTML.
Bodies ==
    { [text |-> "{\"id\": 2}", kind |-> "json"],
      [text |-> "", kind |-> "empty"],
      [text |-> "<html>Not Found</html>", kind |-> "html"] }

HeaderSets == { {}, {<<"Content-Type", "application/json">>} }

\* Response.ok: raise_for_status() does not raise, which it does for the
\* status codes from 400 to 599.
response_ok(status_code) == ~(status_code >= 400 /\ status_code < 600)

\* resp.json(): the document, or the exception for a body that is none.
json(body) ==
    IF body.kind = "json"
    THEN [exc |-> "none", value |-> [parsed |-> TRUE, of |-> body.text]]
    ELSE [exc |-> "JSONDecodeError", value |-> [parsed |-> FALSE, of |-> ""]]

\* DecodeHandler with no handler around resp.json().
DecodeHandler_None(e) == FALSE

\* The handler around resp.json() in _resp_data, except Exception.
DecodeHandler(e) == e # "none"

NoResponse == [status_code |-> 0, body |-> [text |-> "", kind |-> "empty"], headers |-> {}]

NoResult ==
    [status_code |-> 0, ok |-> FALSE, json |-> [parsed |-> FALSE, of |-> ""],
     headers |-> {}]

ApiInit ==
    [pc |-> "idle", verb |-> "none", resp |-> NoResponse, result |-> NoResult,
     exc |-> "none"]

----------------------------------------------------------------------------
(* utils/test_data.py: LoginTestData, ProductTestData, CheckoutTestData.    *)
(* A dict is a function from its keys to its values.  The tables are class  *)
(* attributes: one object each for the whole run.  A getter returns either  *)
(* an element of a table, the same object the table holds, or a new dict;   *)
(* `alias` is the place in the tables of the object returned, NoRef for a   *)
(* new dict.                                                                *)

VALID_USERS ==
    << [username |-> "standard_user", password |-> "secret_sauce", type |-> "standard"],
       [username |-> "problem_user", password |-> "secret_sauce", type |-> "problem"],
       [username |-> "performance_glitch_user", password |-> "secret_sauce",
        type |-> "performance"] >>

INVALID_USERS ==
    << [username |-> "locked_out_user", password |-> "secret_sauce", error |-> "locked_out"],
       [username |-> "invalid_user", password |-> "secret_sauce",
        error |-> "invalid_credentials"],
       [username |-> "standard_user", password |-> "wrong_password",
        error |-> "invalid_credentials"],
       [username |-> "", password |-> "secret_sauce", error |-> "username_required"],
       [username |-> "standard_user", password |-> "", error |-> "password_required"] >>

PRODUCTS ==
    << [name |-> "Sauce Labs Backpack", price |-> "$29.99", id |-> "sauce-labs-backpack",
        description |-> "carry.allTheThings() with the sleek, streamlined Sly Pack"],
       [name |-> "Sauce Labs Bike Light", price |-> "$9.99", id |-> "sauce-labs-bike-light",
        description |-> "A red light isn't the desired state in testing"],
       [name |-> "Sauce Labs Bolt T-Shirt", price |-> "$15.99",
        id |-> "sauce-labs-bolt-t-shirt",
        description |-> "Get your testing superhero on with the Sauce Labs bolt T-shirt"] >>

VALID_CHECKOUT_INFO ==
    [first_name |-> "John", last_name |-> "Doe", postal_code |-> "12345"]

INVALID_CHECKOUT_DATA ==
    << [first_name |-> "", last_name |-> "Doe", postal_code |-> "12345",
        error |-> "first_name_required"],
       [first_name |-> "John", last_name |-> "", postal_code |-> "12345",
        error |-> "last_name_required"],
       [first_name |-> "John", last_name |-> "Doe", postal_code |-> "",
        error |-> "postal_code_required"] >>

\* The class attributes as the module defines them.
ClassTables ==
    [ VALID_USERS           |-> VALID_USERS,
      INVALID_USERS         |-> INVALID_USERS,
      PRODUCTS              |-> PRODUCTS,
      VALID_CHECKOUT_INFO   |-> VALID_CHECKOUT_INFO,
      INVALID_CHECKOUT_DATA |-> INVALID_CHECKOUT_DATA ]

\* Arguments the getters are called with: ones a table has, and one it has not.
UserTypes == {"standard", "problem", "admin"}

LoginErrors == {"locked_out", "username_required", "unknown"}

LookupNames == {"Sauce Labs Backpack", "Sauce Labs Bike Light", "Fleece Jacket"}

CheckoutErrors == {"first_name_required", "postal_code_required", "unknown"}

\* Values a caller stores in a dict it was given.
NewValues == {"", "changed"}

NoRef == <<"none", 0>>

\* `for x in table: if x[key] == value: return x`, then `return table[0]`:
\* the position (from 1) of the element returned, and whether the loop found it.
Found(table, key, value) == \E i \in DOMAIN table : table[i][key] = value

Lookup(table, key, value) ==
    IF Found(table, key, value)
    THEN CHOOSE i \in DOMAIN table :
            /\ table[i][key] = value
            /\ \A j \in 1..(i - 1) : table[j][key] # value
    ELSE 1

\* dict.copy(): a new dict with the same items.
copy(d) == [alias |-> NoRef, value |-> d]

\* {k: v for k, v in data.items() if k != "error"}: a new dict.
WithoutError(d) == [alias |-> NoRef, value |-> [k \in DOMAIN d \ {"error"} |-> d[k]]]

\* `return x` for an element x of a table: the object the table holds.
Element(name, t, i) == [alias |-> <<name, i>>, value |-> t[name][i]]

get_valid_user(t, user_type) ==
    Element("VALID_USERS", t, Lookup(t.VALID_USERS, "type", user_type))

get_invalid_user(t, error_type) ==
    Element("INVALID_USERS", t, Lookup(t.INVALID_USERS, "error", error_type))

get_product_by_name(t, name) ==
    Element("PRODUCTS", t, Lookup(t.PRODUCTS, "name", name))

get_valid_checkout_info(t) == copy(t.VALID_CHECKOUT_INFO)

get_invalid_checkout_info(t, error_type) ==
    IF Found(t.INVALID_CHECKOUT_DATA, "error", error_type)
    THEN WithoutError(t.INVALID_CHECKOUT_DATA[Lookup(t.INVALID_CHECKOUT_DATA, "error", error_type)])
    ELSE Element("INVALID_CHECKOUT_DATA", t, 1)

TablesInit ==
    [ cls    |-> ClassTables,    \* the class attributes
      getter |-> "none",         \* the getter called last
      arg    |-> "none",         \* its argument
      alias  |-> NoRef,          \* the object it returned ...
      value  |-> VALID_CHECKOUT_INFO,   \* ... and the items of that object
      writes |-> 0 ]             \* assignments made to returned dicts

----------------------------------------------------------------------------
(* Initial state: a fresh page on the login page, nothing called yet *)

Init ==
    /\ page = [open |-> TRUE, url |-> "login",
               loggedIn |-> FALSE, inCart |-> FALSE, sort |-> SORT_NAME_ASC]
    /\ method = "none"
    /\ arg = "none"
    /\ pc = "Idle"
    /\ attempt = 0
    /\ sleeps = 0
    /\ clicks = 0
    /\ error = NoError
    /\ trace = <<>>
    /\ held = FALSE
    /\ calls = 0
    /\ sess = SessInit
    /\ login = LoginInit
    /\ shop = ShopInit
    /\ par = ParInit
    /\ listing = ListingInit
    /\ timed = TimedInit
    /\ bdd = BddInit
    /\ data = DataInit
    /\ api = ApiInit
    /\ tables = TablesInit

----------------------------------------------------------------------------
(* Steps *)

\* The test calls method m: an executor enters its for-loop, a direct
\* method enters click_element / select_dropdown_option, its one attempt.
Call(m, a) ==
    /\ pc \in {"Idle"} \cup Terminal
    /\ calls < MaxCalls
    /\ (m = "sort_products") = (a \in SortOptions)
    /\ method' = m
    /\ arg' = a
    /\ pc' = IF m \in Executors THEN "for" ELSE "wait"
    /\ attempt' = IF m \in Executors THEN 0 ELSE 1
    /\ sleeps' = 0
    /\ clicks' = 0
    /\ error' = NoError
    /\ trace' = <<>>
    /\ held' = PostHolds(m, a, page)
    /\ calls' = calls + 1
    /\ UNCHANGED page

\* The head of the for-loop of add_to_cart / remove_from_cart, and the
\* raise that follows the loop.
ForNext ==
    /\ pc = "for"
    /\ IF HasNext(attempt)
       THEN /\ attempt' = attempt + 1
            /\ pc' = "visible"
            /\ UNCHANGED error
       ELSE /\ pc' = "Raised"
            /\ error' = LoopFailure(method)
            /\ UNCHANGED attempt
    /\ UNCHANGED <<page, method, arg, sleeps, clicks, trace, held, calls>>

\* if self.is_element_visible(BUTTON, timeout=3000): one wait_for, whose
\* exception is swallowed into False.
IsElementVisible ==
    /\ pc = "visible"
    /\ \E r \in WaitOutcomes(LocatorOf(method), page) :
          /\ trace' = Append(trace, Event(attempt, "visible", r))
          /\ pc' = AfterVisible(is_element_visible(r))
    /\ UNCHANGED <<page, method, arg, attempt, sleeps, clicks, error, held, calls>>

\* An exception e leaves click_element / select_dropdown_option: the
\* handler of the executor takes a timeout to the sleep, anything else, and
\* anything at all in a direct method, reaches the caller.
Throw(e) ==
    IF Catches(method, e)
    THEN pc' = "sleep" /\ UNCHANGED error
    ELSE pc' = "Raised" /\ error' = e

\* BasePage.wait_for_element, as click_element and select_dropdown_option
\* call it before acting.
WaitForElement ==
    /\ pc = "wait"
    /\ \E r \in WaitOutcomes(LocatorOf(method), page) :
          /\ trace' = Append(trace, Event(attempt, "wait", r))
          /\ IF r = "ok"
             THEN pc' = "act" /\ UNCHANGED error
             ELSE Throw(Raise(r))
    /\ UNCHANGED <<page, method, arg, attempt, sleeps, clicks, held, calls>>

\* element.click(force=force) / element.select_option(value=option).  A
\* call that times out may or may not have registered in the page.
Act ==
    /\ pc = "act"
    /\ \E r \in ActOutcomes, registered \in BOOLEAN :
          /\ (r = "ok") => registered
          /\ (r = "error") => ~registered
          /\ trace' = Append(trace, Event(attempt, "act", r))
          /\ clicks' = clicks + 1
          /\ page' = IF registered THEN Effect(method, arg, page) ELSE page
          /\ IF r = "ok"
             THEN pc' = AfterAct(method) /\ UNCHANGED error
             ELSE Throw(Raise(r))
    /\ UNCHANGED <<method, arg, attempt, sleeps, held, calls>>

\* except PlaywrightTimeoutError: time.sleep(1), then the next iteration.
Sleep ==
    /\ pc = "sleep"
    /\ sleeps' = sleeps + 1
    /\ trace' = Append(trace, Event(attempt, "sleep", "ok"))
    /\ pc' = "for"
    /\ page' = OnTimeout(page)
    /\ UNCHANGED <<method, arg, attempt, clicks, error, held, calls>>

\* The variables the steps of a page-object invocation leave alone.
notExec == <<sess, login, shop, par, listing, timed, bdd, data, api, tables>>

Next ==
    \/ \E m \in Methods, a \in SortOptions \cup {"none"} : Call(m, a) /\ UNCHANGED notExec
    \/ ForNext /\ UNCHANGED notExec
    \/ IsElementVisible /\ UNCHANGED notExec
    \/ WaitForElement /\ UNCHANGED notExec
    \/ Act /\ UNCHANGED notExec
    \/ Sleep /\ UNCHANGED notExec

Spec == Init /\ [][Next]_vars

\* A statement of an invocation under way: the code is sequential, so the
\* statement it has reached is executed, and every browser call in it
\* returns or times out.
Step == ForNext \/ IsElementVisible \/ WaitForElement \/ Act \/ Sleep

SpecLive == Spec /\ WF_vars(Step /\ UNCHANGED notExec)

----------------------------------------------------------------------------
(* Steps of the pytest session *)

\* pytest starts the next test: the session fixtures browser and context
\* are created for the first test and reused afterwards, the function
\* fixture page opens a new page in the context.
StartTest(k) ==
    /\ sess.phase = "idle"
    /\ sess.test < MaxTests
    /\ sess.browser # "closed"
    /\ sess' = [sess EXCEPT !.test = @ + 1, !.kind = k, !.phase = "setup",
                            !.browser = "open", !.context = "open",
                            !.pageOpen = TRUE,
                            !.page = IF ScopeOf("page") = "function" \/ ~sess.pageOpen
                                     THEN sess.test + 1 ELSE @,
                            !.life = @ \o SetupEvents(Fixtures, sess, sess.test + 1),
                            !.store = StoreOfNewPage(sess.store),
                            !.reports = <<>>, !.report = NoReport,
                            !.runs = 0, !.seen = -1]

\* The autouse setup of the test class runs: navigate_to_login, and for
\* the shopping tests the login and verify_home_page_loaded, whose
\* assertions may fail.  A login that went through stores the user and
\* shows the cart badge of the stored cart.
SetupPhase(ok) ==
    /\ sess.phase = "setup"
    /\ sess' = [sess EXCEPT
                  !.phase = "report",
                  !.report = [when |-> "setup", failed |-> ~ok],
                  !.store = IF sess.kind = "shopping" /\ ok
                            THEN [@ EXCEPT !.user = TRUE] ELSE @,
                  !.seen = IF sess.kind = "shopping" /\ ok
                           THEN BadgeCount(sess.store) ELSE @]

\* The test function runs, once.  A shopping test adds and removes
\* products and may fail an assertion; the login test logs in, reads the
\* badge and fails when get_cart_item_count() is not 0.
CallPhase(added, removed, ok) ==
    /\ sess.phase = "call"
    /\ IF sess.kind = "shopping"
       THEN sess' = [sess EXCEPT
                       !.phase = "report", !.runs = @ + 1,
                       !.report = [when |-> "call", failed |-> ~ok],
                       !.store = [@ EXCEPT !.cart = (@ \cup added) \ removed]]
       ELSE /\ added = {} /\ removed = {}
            /\ ok = (BadgeCount(sess.store) = 0)
            /\ sess' = [sess EXCEPT
                          !.phase = "report", !.runs = @ + 1,
                          !.report = [when |-> "call", failed |-> ~ok],
                          !.store = [@ EXCEPT !.user = TRUE],
                          !.seen = BadgeCount(sess.store)]

\* The teardown of the test: the code after the yield of the
\* function-scoped fixtures, page.close() for the page fixture.
TeardownPhase ==
    /\ sess.phase = "teardown"
    /\ sess' = [sess EXCEPT
                  !.phase = "report",
                  !.pageOpen = AfterTeardown("page", sess, "function", FALSE),
                  !.context = AfterTeardown("context", sess, "function", "none"),
                  !.browser = AfterTeardown("browser", sess, "function", "none"),
                  !.life = @ \o TeardownEvents(Fixtures, sess, sess.test, "function"),
                  !.report = [when |-> "teardown", failed |-> FALSE]]

\* pytest_runtest_makereport, called with the report of the phase that
\* just ended: page.screenshot for a report ShouldCapture selects (on a
\* closed page the screenshot raises and the hook only prints).  Then
\* pytest goes on: to the call after a passed setup, to the teardown
\* after a failed setup or the call, to the next test after the teardown.
MakeReport ==
    /\ sess.phase = "report"
    /\ sess' = [sess EXCEPT
                  !.reports = Append(@, sess.report),
                  !.report = NoReport,
                  !.shots = IF ShouldCapture(sess.report, TRUE) /\ sess.pageOpen
                            THEN @ \cup {[test |-> sess.test, when |-> sess.report.when]}
                            ELSE @,
                  !.phase = CASE sess.report.when = "setup" ->
                                     IF sess.report.failed THEN "teardown" ELSE "call"
                              [] sess.report.when = "call" -> "teardown"
                              [] sess.report.when = "teardown" -> "idle"]

\* The session ends: the teardown of context and of browser.
EndSession ==
    /\ sess.phase = "idle"
    /\ sess.browser = "open"
    /\ sess' = [sess EXCEPT
                  !.pageOpen = FALSE, !.context = "closed", !.browser = "closed",
                  !.life = @ \o TeardownEvents(Fixtures, sess, sess.test, "session")]

\* The variables the steps of the session leave alone.
notSession == <<execVars, login, shop, par, listing, timed, bdd, data, api, tables>>

NextSession ==
    \/ \E k \in TestKinds : StartTest(k) /\ UNCHANGED notSession
    \/ \E ok \in BOOLEAN : SetupPhase(ok) /\ UNCHANGED notSession
    \/ \E added \in SUBSET Products, removed \in SUBSET Products, ok \in BOOLEAN :
          CallPhase(added, removed, ok) /\ UNCHANGED notSession
    \/ TeardownPhase /\ UNCHANGED notSession
    \/ MakeReport /\ UNCHANGED notSession
    \/ EndSession /\ UNCHANGED notSession

SpecSession == Init /\ [][NextSession]_vars

----------------------------------------------------------------------------
(* Steps of the login loop.  The test and the browser run side by side:
   a click returns to the test while the URL change it caused may still
   be on its way. *)

\* test_login_with_test_data gets its cases and enters the loop, the
\* browser on the login page (setup: navigate_to_login).
LoadCases(cs) ==
    /\ login.pc = "idle"
    /\ login' = [login EXCEPT !.pc = "clear", !.cases = cs, !.i = 1]

\* An exception leaves the test.
LoginRaise(e) == login' = [login EXCEPT !.pc = "raised", !.exc = e]

\* The body of the loop is over: the next case, or the end of the test.
NextCase(l) ==
    IF l.i < Len(l.cases)
    THEN [l EXCEPT !.pc = "clear", !.i = @ + 1]
    ELSE [l EXCEPT !.pc = "done"]

\* clear_login_form: fill_input waits for the username input to be
\* visible, which it is on the login page; it waits while a navigation is
\* on its way and times out on another page.
ClearLoginForm ==
    /\ login.pc = "clear"
    /\ IF login.url = "login" /\ login.nav = "none"
       THEN login' = [login EXCEPT !.pc = "login"]
       ELSE /\ login.nav = "none"
            /\ LoginRaise("TimeoutError")

\* login(username, password): the fields are filled and the button is
\* clicked; the application starts the change to the inventory page for
\* valid credentials and shows the error message otherwise.
LoginStep ==
    /\ login.pc = "login"
    /\ LET c == login.cases[login.i] IN
       login' = [login EXCEPT
                   !.pc = IF c.expected = "success" THEN "read_url" ELSE "check_error",
                   !.nav = IF c.valid THEN "inventory" ELSE "none",
                   !.errorShown = ~c.valid,
                   !.arrived = FALSE]

\* The browser completes a URL change that a click started.
BrowserNavigates ==
    /\ login.nav # "none"
    /\ login' = [login EXCEPT !.url = login.nav, !.nav = "none",
                              !.arrived = (login.nav = "inventory")]

\* wait_for_url_change, first statement: current_url = get_current_url().
ReadCurrentUrl ==
    /\ login.pc = "read_url"
    /\ login' = [login EXCEPT !.pc = "wait_url", !.saved = login.url]

\* wait_for_url_change, second statement: page.wait_for_url(predicate)
\* returns once the URL satisfies the predicate, waits while a change is
\* on its way, and raises the timeout when none is.
WaitForUrl ==
    /\ login.pc = "wait_url"
    /\ IF UrlChanged(login.url, login.saved)
       THEN login' = [login EXCEPT !.pc = "assert"]
       ELSE /\ login.nav = "none"
            /\ LoginRaise("TimeoutError")

\* verify_successful_login, after the wait: the assertion on the URL.
AssertInventory ==
    /\ login.pc = "assert"
    /\ IF OnInventory(login.url)
       THEN login' = [login EXCEPT !.pc = "logout"]
       ELSE LoginRaise("AssertionError")

\* home_page.logout(): the burger menu and the logout link are clicked,
\* the application starts the change back to the login page.
Logout ==
    /\ login.pc = "logout"
    /\ login' = [NextCase(login) EXCEPT !.nav = "login"]

\* assert self.login_page.is_error_displayed().
CheckError ==
    /\ login.pc = "check_error"
    /\ IF login.errorShown
       THEN login' = NextCase(login)
       ELSE LoginRaise("AssertionError")

\* The variables the steps of the login loop leave alone.
notLogin == <<execVars, sess, shop, par, listing, timed, bdd, data, api, tables>>

NextLogin ==
    \/ \E cs \in CaseLists(MaxCases) : LoadCases(cs) /\ UNCHANGED notLogin
    \/ ClearLoginForm /\ UNCHANGED notLogin
    \/ LoginStep /\ UNCHANGED notLogin
    \/ BrowserNavigates /\ UNCHANGED notLogin
    \/ ReadCurrentUrl /\ UNCHANGED notLogin
    \/ WaitForUrl /\ UNCHANGED notLogin
    \/ AssertInventory /\ UNCHANGED notLogin
    \/ Logout /\ UNCHANGED notLogin
    \/ CheckError /\ UNCHANGED notLogin

SpecLogin == Init /\ [][NextLogin]_vars

----------------------------------------------------------------------------
(* Calls of a shopping test.  A test that raised is over. *)

ShopRunning == shop.exc = "none"

\* A call that changes the page: the observation of the earlier state and
\* the details read earlier are dropped with it.
Called(m, s) == [s EXCEPT !.last = m, !.obs = NoObservation]

\* home_page.add_product_to_cart_by_name(product_name).
AddProductToCartByName(product_name) ==
    /\ ShopRunning /\ shop.view = "inventory"
    /\ Len(shop.log) < MaxOps
    /\ shop' = Called("add_product_to_cart_by_name",
                   [click_element(add_button_locator(product_name), shop)
                      EXCEPT !.log = Append(@, [op |-> "add", name |-> product_name])])

\* home_page.remove_product_from_cart_by_name(product_name).
RemoveProductFromCartByName(product_name) ==
    /\ ShopRunning /\ shop.view = "inventory"
    /\ Len(shop.log) < MaxOps
    /\ shop' = Called("remove_product_from_cart_by_name",
                   [click_element(remove_button_locator(product_name), shop)
                      EXCEPT !.log = Append(@, [op |-> "remove", name |-> product_name])])

\* count = home_page.get_cart_item_count().
GetCartItemCount ==
    /\ ShopRunning
    /\ shop' = [shop EXCEPT
                  !.last = "get_cart_item_count",
                  !.obs = [m |-> "get_cart_item_count", text |-> <<>>, n |-> 0,
                           ret |-> get_cart_item_count(shop)]]

\* home_page.is_product_in_cart(product_name); ret 1 is True, 0 is False.
IsProductInCart(product_name) ==
    /\ ShopRunning /\ shop.view = "inventory"
    /\ shop' = [shop EXCEPT
                  !.last = "is_product_in_cart",
                  !.obs = [m |-> "is_product_in_cart", text |-> product_name, n |-> 0,
                           ret |-> IF is_product_in_cart(product_name, shop)
                                   THEN 1 ELSE 0]]

\* home_page.verify_cart_badge_count(expected_count): the assertion fails
\* unless the count read equals expected_count.
VerifyCartBadgeCount(expected_count) ==
    /\ ShopRunning
    /\ LET actual_count == get_cart_item_count(shop) IN
       shop' = [shop EXCEPT
                  !.last = "verify_cart_badge_count",
                  !.exc = IF actual_count = expected_count
                          THEN "none" ELSE "AssertionError",
                  !.obs = [m |-> "verify_cart_badge_count", text |-> <<>>,
                           n |-> expected_count, ret |-> actual_count]]

\* product_info = home_page.get_product_info(product_index).
GetProductInfo(product_index) ==
    /\ ShopRunning /\ shop.view = "inventory"
    /\ LET called == [shop EXCEPT
                        !.last = "get_product_info", !.info = NoDetails,
                        !.obs = [m |-> "get_product_info", text |-> <<>>,
                                 n |-> product_index, ret |-> 0]] IN
       IF product_index >= Len(Inventory)
       THEN shop' = [called EXCEPT !.exc = "IndexError"]
       ELSE \E k \in nth(Len(Inventory), product_index) :
               IF k = 0
               THEN shop' = [called EXCEPT !.exc = "TimeoutError"]
               ELSE shop' = [called EXCEPT
                               !.info = [name |-> Inventory[k].name,
                                         price |-> Inventory[k].price,
                                         description |-> Inventory[k].description],
                               !.obs.ret = k]

\* home_page.add_product_to_cart_by_index(product_index): the same range
\* check, then the click on the add button inside the item nth picked.  The
\* click times out when nth picked nothing or the item shows no add button.
AddProductToCartByIndex(product_index) ==
    /\ ShopRunning /\ shop.view = "inventory"
    /\ Len(shop.log) < MaxOps
    /\ LET called == [shop EXCEPT
                        !.last = "add_product_to_cart_by_index",
                        !.obs = [m |-> "add_product_to_cart_by_index", text |-> <<>>,
                                 n |-> product_index, ret |-> 0]] IN
       IF product_index >= Len(Inventory)
       THEN shop' = [called EXCEPT !.exc = "IndexError"]
       ELSE \E k \in nth(Len(Inventory), product_index) :
               IF k = 0 \/ Inventory[k].name \in shop.cart
               THEN shop' = [called EXCEPT !.exc = "TimeoutError"]
               ELSE shop' = [called EXCEPT
                               !.cart = @ \cup {Inventory[k].name},
                               !.log = Append(@, [op |-> "add",
                                                  name |-> Inventory[k].name]),
                               !.obs.ret = k]

\* home_page.click_product_name(product_name).
ClickProductName(product_name) ==
    /\ ShopRunning /\ shop.view = "inventory"
    /\ shop' = Called("click_product_name",
                      click_element(product_locator(product_name), shop))

\* product_page.verify_product_page_loaded(): four asserted calls of
\* wait_for_element(locator, timeout=5000).
VerifyProductPageLoaded ==
    /\ ShopRunning /\ shop.view = "item"
    /\ LET waits == { wait_for_element(l, {"timeout"}, shop) :
                        l \in {PRODUCT_NAME, PRODUCT_IMAGE, PRODUCT_PRICE,
                               BACK_TO_PRODUCTS} } IN
       shop' = [shop EXCEPT
                  !.last = "verify_product_page_loaded",
                  !.exc = IF waits = {"ok"} THEN "none"
                          ELSE CHOOSE e \in waits : e # "ok"]

\* details = product_page.get_product_details():
\* wait_for_element(PRODUCT_NAME, timeout=5000), then the three texts.
GetProductDetails ==
    /\ ShopRunning /\ shop.view = "item"
    /\ LET r == wait_for_element(PRODUCT_NAME, {"timeout"}, shop)
           product == ProductOf(shop.item) IN
       shop' = [shop EXCEPT
                  !.last = "get_product_details",
                  !.exc = IF r = "ok" THEN "none" ELSE r,
                  !.details = IF r = "ok"
                              THEN [name |-> product.name, price |-> product.price,
                                    description |-> product.description]
                              ELSE @]

\* product_page.back_to_products():
\* wait_for_element(BACK_TO_PRODUCTS, timeout=3000), then the click.
BackToProducts ==
    /\ ShopRunning /\ shop.view = "item"
    /\ LET r == wait_for_element(BACK_TO_PRODUCTS, {"timeout"}, shop) IN
       shop' = Called("back_to_products",
                      IF r = "ok" THEN click_element(BACK_TO_PRODUCTS, shop)
                      ELSE [shop EXCEPT !.exc = r])

\* The variables the calls of a shopping test leave alone.
notShop == <<execVars, sess, login, par, listing, timed, bdd, data, api, tables>>

NextShop ==
    \/ \E q \in ProductNames : AddProductToCartByName(q) /\ UNCHANGED notShop
    \/ \E q \in ProductNames : RemoveProductFromCartByName(q) /\ UNCHANGED notShop
    \/ GetCartItemCount /\ UNCHANGED notShop
    \/ \E q \in ProductNames : IsProductInCart(q) /\ UNCHANGED notShop
    \/ \E n \in 0..Len(Inventory) : VerifyCartBadgeCount(n) /\ UNCHANGED notShop
    \/ \E k \in Indexes : GetProductInfo(k) /\ UNCHANGED notShop
    \/ \E k \in Indexes : AddProductToCartByIndex(k) /\ UNCHANGED notShop
    \/ \E q \in ProductNames : ClickProductName(q) /\ UNCHANGED notShop
    \/ VerifyProductPageLoaded /\ UNCHANGED notShop
    \/ GetProductDetails /\ UNCHANGED notShop
    \/ BackToProducts /\ UNCHANGED notShop

SpecShop == Init /\ [][NextShop]_vars

----------------------------------------------------------------------------
(* Steps of the two tests.  Every step is a step of one worker; the steps
   of the two interleave freely. *)

\* Worker w calls add_to_cart or remove_from_cart: retries = 3 and the
\* loop start in the frame of the call.
ParCall(w, m) ==
    /\ par.inv[w].pc = "Idle"
    /\ par' = [par EXCEPT
                 !.inv[w] = [method |-> m, pc |-> "for", error |-> NoError,
                             trace |-> <<>>],
                 !.frame[FrameOf(w)] = [attempt |-> 0, sleeps |-> 0]]

\* The head of the for-loop, and the raise that follows the loop.
ParForNext(w) ==
    /\ par.inv[w].pc = "for"
    /\ IF HasNext(par.frame[FrameOf(w)].attempt)
       THEN par' = [par EXCEPT !.frame[FrameOf(w)].attempt = @ + 1,
                               !.inv[w].pc = "visible"]
       ELSE par' = [par EXCEPT !.inv[w].pc = "Raised",
                               !.inv[w].error = LoopFailure(par.inv[w].method)]

\* is_element_visible on the page of the worker.
ParIsElementVisible(w) ==
    /\ par.inv[w].pc = "visible"
    /\ \E r \in WaitOutcomes(LocatorOf(par.inv[w].method), par.pages[PageOf(w)]) :
          par' = [par EXCEPT
                    !.inv[w].trace = Append(@, Event(par.frame[FrameOf(w)].attempt,
                                                     "visible", r)),
                    !.inv[w].pc = AfterVisible(is_element_visible(r))]

\* The invocation of worker w after exception e left click_element.
ParThrow(w, e) ==
    IF Catches(par.inv[w].method, e)
    THEN [par.inv[w] EXCEPT !.pc = "sleep"]
    ELSE [par.inv[w] EXCEPT !.pc = "Raised", !.error = e]

\* wait_for_element inside click_element, on the page of the worker.
ParWaitForElement(w) ==
    /\ par.inv[w].pc = "wait"
    /\ \E r \in WaitOutcomes(LocatorOf(par.inv[w].method), par.pages[PageOf(w)]) :
          LET t == Append(par.inv[w].trace,
                          Event(par.frame[FrameOf(w)].attempt, "wait", r)) IN
          par' = [par EXCEPT
                    !.inv[w] = IF r = "ok"
                               THEN [par.inv[w] EXCEPT !.pc = "act", !.trace = t]
                               ELSE [ParThrow(w, Raise(r)) EXCEPT !.trace = t]]

\* element.click on the page of the worker.
ParAct(w) ==
    /\ par.inv[w].pc = "act"
    /\ \E r \in ActOutcomes, registered \in BOOLEAN :
          /\ (r = "ok") => registered
          /\ (r = "error") => ~registered
          /\ LET t == Append(par.inv[w].trace,
                             Event(par.frame[FrameOf(w)].attempt, "act", r)) IN
             par' = [par EXCEPT
                       !.pages[PageOf(w)] =
                           IF registered THEN Effect(par.inv[w].method, "none", @) ELSE @,
                       !.inv[w] = IF r = "ok"
                                  THEN [par.inv[w] EXCEPT
                                          !.pc = AfterAct(par.inv[w].method),
                                          !.trace = t]
                                  ELSE [ParThrow(w, Raise(r)) EXCEPT !.trace = t]]

\* time.sleep(1) in the handler: the worker sleeps, the other goes on.
ParSleep(w) ==
    /\ par.inv[w].pc = "sleep"
    /\ par' = [par EXCEPT
                 !.frame[FrameOf(w)].sleeps = @ + 1,
                 !.pages[PageOf(w)] = OnTimeout(@),
                 !.inv[w].pc = "for"]

\* The variables the steps of the two tests leave alone.
notPar == <<execVars, sess, login, shop, listing, timed, bdd, data, api, tables>>

NextPar ==
    \/ \E w \in Workers, m \in Executors : ParCall(w, m) /\ UNCHANGED notPar
    \/ \E w \in Workers : ParForNext(w) /\ UNCHANGED notPar
    \/ \E w \in Workers : ParIsElementVisible(w) /\ UNCHANGED notPar
    \/ \E w \in Workers : ParWaitForElement(w) /\ UNCHANGED notPar
    \/ \E w \in Workers : ParAct(w) /\ UNCHANGED notPar
    \/ \E w \in Workers : ParSleep(w) /\ UNCHANGED notPar

SpecPar == Init /\ [][NextPar]_vars

----------------------------------------------------------------------------
(* Steps of the sort checks *)

\* The inventory page displays a list of names: what get_product_names
\* will return.
Display(names) ==
    listing' = [names |-> names, check |-> "none", result |-> "none"]

\* home_page.verify_products_sorted_by_name_asc().
VerifyProductsSortedByNameAsc ==
    /\ listing.check = "none"
    /\ listing' = [listing EXCEPT
                     !.check = "asc",
                     !.result = verify_products_sorted_by_name_asc(listing.names)]

\* home_page.verify_products_sorted_by_name_desc().
VerifyProductsSortedByNameDesc ==
    /\ listing.check = "none"
    /\ listing' = [listing EXCEPT
                     !.check = "desc",
                     !.result = verify_products_sorted_by_name_desc(listing.names)]

\* The variables the sort checks leave alone.
notListing == <<execVars, sess, login, shop, par, timed, bdd, data, api, tables>>

NextListing ==
    \/ \E names \in UNION { [1..k -> DisplayNames] : k \in 0..MaxLen } :
          Display(names) /\ UNCHANGED notListing
    \/ VerifyProductsSortedByNameAsc /\ UNCHANGED notListing
    \/ VerifyProductsSortedByNameDesc /\ UNCHANGED notListing

SpecListing == Init /\ [][NextListing]_vars

----------------------------------------------------------------------------
(* Steps of one invocation of an executor, with the time each call blocks *)

TimedCall(m) ==
    /\ timed.pc = "Idle"
    /\ timed' = [timed EXCEPT !.method = m, !.pc = "for"]

TimedForNext ==
    /\ timed.pc = "for"
    /\ IF HasNext(timed.attempt)
       THEN timed' = [timed EXCEPT !.attempt = @ + 1, !.pc = "visible"]
       ELSE timed' = [timed EXCEPT !.pc = "Raised",
                                   !.error = LoopFailure(timed.method)]

\* The waits made so far and one more: the call, its attempt, its answer and
\* the time it blocked.
Waited(op, o) ==
    Append(timed.waits, [a |-> timed.attempt, op |-> op, r |-> o.r, d |-> o.d])

TimedIsElementVisible ==
    /\ timed.pc = "visible"
    /\ \E o \in TimedOutcomes(TimeoutOf("visible")) :
          timed' = [timed EXCEPT !.waits = Waited("visible", o),
                                 !.pc = AfterVisible(is_element_visible(o.r))]

\* The position and error after exception e left click_element.
TimedThrow(e) ==
    IF Catches(timed.method, e)
    THEN [timed EXCEPT !.pc = "sleep"]
    ELSE [timed EXCEPT !.pc = "Raised", !.error = e]

TimedWaitForElement ==
    /\ timed.pc = "wait"
    /\ \E o \in TimedOutcomes(TimeoutOf("wait")) :
          timed' = [(IF o.r = "ok" THEN [timed EXCEPT !.pc = "act"]
                     ELSE TimedThrow(Raise(o.r)))
                       EXCEPT !.waits = Waited("wait", o)]

TimedAct ==
    /\ timed.pc = "act"
    /\ \E o \in TimedOutcomes(TimeoutOf("act")) :
          timed' = [(IF o.r = "ok" THEN [timed EXCEPT !.pc = AfterAct(timed.method)]
                     ELSE TimedThrow(Raise(o.r)))
                       EXCEPT !.waits = Waited("act", o)]

TimedSleep ==
    /\ timed.pc = "sleep"
    /\ timed' = [timed EXCEPT
                   !.sleeps = Append(@, [a |-> timed.attempt,
                                         d |-> BackoffDelay(timed.attempt)]),
                   !.pc = "for"]

\* The variables the timed steps leave alone.
notTimed == <<execVars, sess, login, shop, par, listing, bdd, data, api, tables>>

NextTimed ==
    \/ \E m \in Executors : TimedCall(m) /\ UNCHANGED notTimed
    \/ TimedForNext /\ UNCHANGED notTimed
    \/ TimedIsElementVisible /\ UNCHANGED notTimed
    \/ TimedWaitForElement /\ UNCHANGED notTimed
    \/ TimedAct /\ UNCHANGED notTimed
    \/ TimedSleep /\ UNCHANGED notTimed

SpecTimed == Init /\ [][NextTimed]_vars

----------------------------------------------------------------------------
(* Steps of a session of scenarios.  A step function names the page object
   it needs as a parameter; the fixture is asked for when the step runs. *)

\* Steps of one scenario that ask for a page object.
MaxSteps == 2

StartScenario ==
    /\ bdd.phase = "idle"
    /\ bdd.test < MaxTests
    /\ bdd' = [bdd EXCEPT !.test = @ + 1, !.phase = "steps", !.steps = 0,
                          !.error = "none"]

\* A step with parameter f runs.  The fixture asks for page: pytest refuses
\* with ScopeMismatch, which fails the scenario, or hands over the page of
\* the test (opened at its first use) and the fixture wraps it in a page
\* object, made once per scope of the fixture.
RunStep(f) ==
    /\ bdd.phase = "steps"
    /\ bdd.steps < MaxSteps
    /\ IF Resolve(f, "page") = "ScopeMismatch"
       THEN bdd' = [bdd EXCEPT
                      !.phase = "teardown", !.error = "ScopeMismatch",
                      !.log = Append(@, [test |-> bdd.test, f |-> f, page |-> 0])]
       ELSE LET own == IF bdd.pageOpen THEN bdd.page ELSE bdd.test
                object == IF bdd.objects[f] = 0 THEN own ELSE bdd.objects[f] IN
            bdd' = [bdd EXCEPT
                      !.steps = @ + 1, !.page = own, !.pageOpen = TRUE,
                      !.objects[f] = object,
                      !.log = Append(@, [test |-> bdd.test, f |-> f, page |-> object])]

\* The last step of the scenario has run.
FinishScenario ==
    /\ bdd.phase = "steps"
    /\ bdd' = [bdd EXCEPT !.phase = "teardown"]

\* The teardown of the scenario: page.close() when the page was opened,
\* and the page objects of function scope are dropped.
TeardownScenario ==
    /\ bdd.phase = "teardown"
    /\ bdd' = [bdd EXCEPT
                 !.phase = "idle", !.pageOpen = FALSE,
                 !.objects = [f \in PageObjectFixtures |->
                                IF ScopeOf(f) = "function" THEN 0 ELSE bdd.objects[f]]]

\* The variables the steps of the scenarios leave alone.
notBdd == <<execVars, sess, login, shop, par, listing, timed, data, api, tables>>

NextBdd ==
    \/ StartScenario /\ UNCHANGED notBdd
    \/ \E f \in PageObjectFixtures : RunStep(f) /\ UNCHANGED notBdd
    \/ FinishScenario /\ UNCHANGED notBdd
    \/ TeardownScenario /\ UNCHANGED notBdd

SpecBdd == Init /\ [][NextBdd]_vars

----------------------------------------------------------------------------
(* Steps of get_login_test_cases, and of whoever writes the data file *)

\* The file at the path is created, replaced or removed, at any time.
FileChanges(status, rows) ==
    /\ (status = "ok") = (rows # <<>>)
    /\ data' = [data EXCEPT !.file = [status |-> status, rows |-> rows]]

\* get_login_test_cases: the path is computed and tested; with no file
\* the default cases are returned.
GetLoginTestCases ==
    /\ data.pc \in {"idle", "returned"}
    /\ IF exists(data.file)
       THEN data' = [data EXCEPT !.pc = "read", !.existed = TRUE, !.read = NoFile,
                                 !.result = <<>>, !.exc = "none"]
       ELSE data' = [data EXCEPT !.pc = "returned", !.existed = FALSE, !.read = NoFile,
                                 !.result = DefaultLoginData, !.exc = "none"]

\* _read_csv_data: the rows read are returned; an exception the handler
\* takes is logged and the default cases are returned; any other leaves
\* the call.
ReadCsvData ==
    /\ data.pc = "read"
    /\ LET r == read_csv(data.file) IN
       data' = [data EXCEPT
                  !.read = data.file,
                  !.pc = IF r.exc = "none" \/ CsvHandler(r.exc)
                         THEN "returned" ELSE "raised",
                  !.result = IF r.exc = "none" THEN r.rows
                             ELSE IF CsvHandler(r.exc) THEN DefaultLoginData
                             ELSE <<>>,
                  !.exc = IF r.exc = "none" \/ CsvHandler(r.exc)
                          THEN "none" ELSE r.exc]

\* The variables these steps leave alone.
notData == <<execVars, sess, login, shop, par, listing, timed, bdd, api, tables>>

NextData ==
    \/ \E status \in FileStates,
          rows \in UNION { [1..k -> CsvRows] : k \in 0..MaxRows } :
          FileChanges(status, rows) /\ UNCHANGED notData
    \/ GetLoginTestCases /\ UNCHANGED notData
    \/ ReadCsvData /\ UNCHANGED notData

SpecData == Init /\ [][NextData]_vars

----------------------------------------------------------------------------
(* Steps of a call of APIHelper *)

\* api_helper.get / post / put / delete(endpoint, **kwargs): the keyword
\* arguments go on to the session, which raises TypeError for one it does
\* not take; otherwise the request is sent.
ApiCall(verb, kwargs) ==
    /\ api.pc \in {"idle", "returned", "raised"}
    /\ api' = [pc |-> IF kwargs \subseteq RequestParams THEN "sent" ELSE "raised",
               verb |-> verb, resp |-> NoResponse, result |-> NoResult,
               exc |-> IF kwargs \subseteq RequestParams THEN "none" ELSE "TypeError"]

\* The server replies.
Respond(status_code, body, headers) ==
    /\ api.pc = "sent"
    /\ (status_code = 204) => (body.kind = "empty")
    /\ api' = [api EXCEPT !.pc = "responded",
                          !.resp = [status_code |-> status_code, body |-> body,
                                    headers |-> headers]]

\* No reply arrives: the session raises ConnectionError, which leaves the
\* call.
ConnectionFails ==
    /\ api.pc = "sent"
    /\ api' = [api EXCEPT !.pc = "raised", !.exc = "ConnectionError"]

\* _resp_data(resp).
RespData ==
    /\ api.pc = "responded"
    /\ LET j == json(api.resp.body) IN
       IF j.exc = "none" \/ DecodeHandler(j.exc)
       THEN api' = [api EXCEPT
                      !.pc = "returned",
                      !.result = [status_code |-> api.resp.status_code,
                                  ok |-> response_ok(api.resp.status_code),
                                  json |-> IF j.exc = "none" THEN j.value
                                           ELSE [parsed |-> FALSE,
                                                 of |-> api.resp.body.text],
                                  headers |-> api.resp.headers]]
       ELSE api' = [api EXCEPT !.pc = "raised", !.exc = j.exc]

\* The variables the steps of the call leave alone.
notApi == <<execVars, sess, login, shop, par, listing, timed, bdd, data, tables>>

NextApi ==
    \/ \E verb \in Verbs, kwargs \in KeywordSets : ApiCall(verb, kwargs) /\ UNCHANGED notApi
    \/ \E status_code \in StatusCodes, body \in Bodies, headers \in HeaderSets :
          Respond(status_code, body, headers) /\ UNCHANGED notApi
    \/ ConnectionFails /\ UNCHANGED notApi
    \/ RespData /\ UNCHANGED notApi

SpecApi == Init /\ [][NextApi]_vars

-----------------------------------------------------------------------------
(* The getters of utils/test_data.py and the assignments of their callers *)

Returned(getter, a, r) ==
    tables' = [tables EXCEPT !.getter = getter, !.arg = a,
                             !.alias = r.alias, !.value = r.value]

GetValidUser(user_type) ==
    Returned("get_valid_user", user_type, get_valid_user(tables.cls, user_type))

GetInvalidUser(error_type) ==
    Returned("get_invalid_user", error_type, get_invalid_user(tables.cls, error_type))

GetProductByName(name) ==
    Returned("get_product_by_name", name, get_product_by_name(tables.cls, name))

GetValidCheckoutInfo ==
    Returned("get_valid_checkout_info", "none", get_valid_checkout_info(tables.cls))

GetInvalidCheckoutInfo(error_type) ==
    Returned("get_invalid_checkout_info", error_type,
             get_invalid_checkout_info(tables.cls, error_type))

\* The caller's `d[key] = v` on the dict it was given.  The dict is one
\* object: when a table holds it too, the table's element changes with it.
SetItem(key, v) ==
    /\ tables.getter # "none"
    /\ tables.writes < MaxWrites
    /\ key \in DOMAIN tables.value
    /\ tables' =
         [tables EXCEPT
            !.value  = [@ EXCEPT ![key] = v],
            !.writes = @ + 1,
            !.cls    = IF tables.alias = NoRef THEN @
                       ELSE [@ EXCEPT ![tables.alias[1]][tables.alias[2]][key] = v]]

DictKeys == {"username", "password", "type", "error", "name", "price", "id",
             "description", "first_name", "last_name", "postal_code"}

notTables == <<execVars, sess, login, shop, par, listing, timed, bdd, data, api>>

NextTables ==
    \/ \E user_type \in UserTypes : GetValidUser(user_type) /\ UNCHANGED notTables
    \/ \E error_type \in LoginErrors : GetInvalidUser(error_type) /\ UNCHANGED notTables
    \/ \E name \in LookupNames : GetProductByName(name) /\ UNCHANGED notTables
    \/ GetValidCheckoutInfo /\ UNCHANGED notTables
    \/ \E error_type \in CheckoutErrors :
          GetInvalidCheckoutInfo(error_type) /\ UNCHANGED notTables
    \/ \E key \in DictKeys, v \in NewValues : SetItem(key, v) /\ UNCHANGED notTables

SpecTables == Init /\ [][NextTables]_vars

----------------------------------------------------------------------------
(* Reading the trace of an invocation *)

Last(t) == t[Len(t)]
Failures(t) == {k \in DOMAIN t : t[k].r # "ok"}
Timeouts(t) == {k \in DOMAIN t : t[k].r = "timeout"}
Errors(t) == {k \in DOMAIN t : t[k].r = "error"}
Successes(t) == {k \in DOMAIN t : t[k].op = "act" /\ t[k].r = "ok"}
Range(t) == {t[k] : k \in DOMAIN t}

\* Attempt n of the trace failed on a timeout.
TimedOut(t, n) == \E k \in Timeouts(t) : t[k].a = n

\* The kind of the last failure of the trace, as an exhaustion error would
\* carry it.
LastFailureKind(t) ==
    LET k == CHOOSE j \in Failures(t) : \A l \in Failures(t) : l <= j
    IN  (IF t[k].r = "timeout" THEN "TimeoutError" ELSE "Error") \o " in " \o t[k].op

\* The invocation ended by the raise that follows the loop.
Exhausted == pc = "Raised" /\ error.type = "Exception"

InAttempt == pc \in {"visible", "wait", "act"}

----------------------------------------------------------------------------
(* Claims *)

\* C1: when every attempt of add_to_cart / remove_from_cart fails on a
\* timeout, the invocation makes exactly `retries` attempts, sleeps exactly
\* retries - 1 times and ends in the exhaustion error.
C1_ExhaustionCount ==
    ( /\ method \in Executors
      /\ pc \in Terminal
      /\ Errors(trace) = {}
      /\ \A n \in 1..attempt : TimedOut(trace, n) )
    => ( attempt = retries /\ sleeps = retries - 1 /\ Exhausted )

\* C2: once the click of attempt k has succeeded the executor has returned:
\* that click is the last thing the invocation did, k attempts were started
\* (k <= retries), nothing was raised, and no sleep or attempt follows it.
C2_SuccessStops ==
    method \in Executors =>
        \A j \in Successes(trace) :
            /\ pc = "Succeeded"
            /\ j = Len(trace)
            /\ trace[j].a = attempt
            /\ attempt <= retries
            /\ error = NoError

C2_Witness ==
    /\ method = "add_to_cart"
    /\ pc = "Succeeded"
    /\ attempt = 2
    /\ Successes(trace) # {}

\* C3: an error that is not a timeout, raised in attempt 1 by the visibility
\* check or by the click, has reached the caller at once: one attempt, no
\* sleep, the invocation over with that error.
C3_NonTransientPropagates ==
    ( /\ method \in Executors
      /\ \E k \in Errors(trace) : trace[k].a = 1 )
    => ( pc = "Raised" /\ error.type = "Error" /\ attempt = 1 /\ sleeps = 0 )

\* C4: every attempt that failed on a timeout, in the visibility check or
\* in the click, was followed by exactly one sleep before the next attempt
\* started; so an invocation that succeeds on attempt 3 has slept twice.
C4_BackoffBetweenAttempts ==
    ( /\ method \in Executors
      /\ Errors(trace) = {}
      /\ (InAttempt \/ pc = "Succeeded") )
    => sleeps = attempt - 1

\* C6: the error of an exhausted invocation carries the number of attempts
\* made and the kind of the last transient failure.
C6_ExhaustedCarriesCause ==
    ( method \in Executors /\ Exhausted /\ Errors(trace) = {} )
    => ( /\ ToString(attempt) \in Range(error.args)
         /\ error.cause = LastFailureKind(trace) )

\* C7: an invocation of an executor never starts more than `retries`
\* attempts, and once it is Succeeded or Raised nothing of it changes any
\* more: no attempt, click or sleep, no earlier position, until the test
\* makes its next call.
C7_BoundedAndTerminal ==
    /\ [](method \in Executors => attempt <= retries)
    /\ [][(pc \in Terminal /\ calls' = calls) => UNCHANGED vars]_vars

C7_Witness ==
    /\ method \in Executors
    /\ Exhausted
    /\ attempt = retries

C9_VerifyThenAct ==
    (method \in Executors /\ held) =>
        (clicks = 0 /\ PostHolds(method, arg, page))

C9_Witness ==
    /\ method = "add_to_cart"
    /\ held
    /\ page.inCart
    /\ pc = "Raised"

\* C10 as stated: in add_product_to_cart_by_name, add_to_cart,
\* click_login_button and sort_products alike, an invocation whose only
\* failure is one timeout ends in success.
C10_AllInsideEnvelope ==
    ( /\ method \in {"add_to_cart"} \cup Direct
      /\ pc \in Terminal
      /\ Cardinality(Failures(trace)) = 1
      /\ Cardinality(Timeouts(trace)) = 1 )
    => pc = "Succeeded"

\* C10, amended: of these actions only add_to_cart runs inside the retry
\* loop, where an invocation whose only failure is one timeout ends in
\* success; add_product_to_cart_by_name, click_login_button and
\* sort_products make one attempt, and a timeout in it reaches the caller
\* as the TimeoutError.
C10_OnlyAddToCartRetries ==
    /\ ( /\ method = "add_to_cart"
         /\ pc \in Terminal
         /\ Cardinality(Failures(trace)) = 1
         /\ Cardinality(Timeouts(trace)) = 1 )
       => pc = "Succeeded"
    /\ ( method \in Direct /\ Timeouts(trace) # {} )
       => ( pc = "Raised" /\ error.type = "TimeoutError" /\ attempt = 1 /\ sleeps = 0 )

C10_Witness ==
    /\ method = "add_to_cart"
    /\ pc = "Succeeded"
    /\ Cardinality(Timeouts(trace)) = 1
    /\ Cardinality(Failures(trace)) = 1

\* C11: no step of an add_to_cart / remove_from_cart invocation other than
\* its successful click closes the page or changes its URL: not a failed
\* visibility check, a failed wait or click, the sleep, the loop head or
\* the raise after the loop.
C11_FailureLeavesPage ==
    [][ ( /\ method \in Executors
          /\ calls' = calls
          /\ ~(pc = "act" /\ pc' = "Succeeded") )
        => (page'.open = page.open /\ page'.url = page.url) ]_vars

C11_Witness ==
    /\ method \in Executors
    /\ Exhausted
    /\ sleeps >= 1
    /\ Errors(trace) # {}
    /\ page.open
    /\ page.url = "inventory"

----------------------------------------------------------------------------
(* Claims about the pytest session *)

FailedReports(phase) ==
    {i \in DOMAIN sess.reports :
        sess.reports[i].when = phase /\ sess.reports[i].failed}

ShotsOfTest == {x \in sess.shots : x.test = sess.test}

\* C12 as stated: a failure of the current test, in its setup or in its
\* body, was reported after a single run and the hook has taken a
\* screenshot of the test's page.
C12_EveryFailureCaptured ==
    /\ sess.runs <= 1
    /\ (FailedReports("setup") \cup FailedReports("call")) # {} => ShotsOfTest # {}

\* C12, amended: the test body runs at most once; a failure of the body is
\* reported with a screenshot of the test's page, taken by the hook while
\* the page was open; a failure of the setup is reported with the body not
\* run and with no screenshot.
C12_CallFailureCaptured ==
    /\ sess.runs <= 1
    /\ Len(sess.reports) <= 3
    /\ FailedReports("call") # {} =>
          ShotsOfTest = {[test |-> sess.test, when |-> "call"]}
    /\ FailedReports("setup") # {} => (ShotsOfTest = {} /\ sess.runs = 0)

C12_Witness ==
    /\ sess.test = 2
    /\ sess.phase = "teardown"
    /\ sess.pageOpen
    /\ FailedReports("call") # {}
    /\ [test |-> 2, when |-> "call"] \in sess.shots
    /\ \E x \in sess.shots : x.test = 1

\* C14: the cart badge read right after the login of a test shows 0, and
\* the page a test starts with holds no login or cart state of an earlier
\* test.
C14_TestsAreIsolated ==
    /\ sess.seen \in {-1, 0}
    /\ sess.phase = "setup" => sess.store = FreshStore

----------------------------------------------------------------------------
(* Claims about the login flow *)

\* C13: verify_successful_login does not fail once the login click has
\* taken the browser to the inventory page, whenever the URL change
\* happened relative to the statements of wait_for_url_change.
C13_VerifyPassesUnderRace ==
    (login.arrived /\ login.url = "inventory") => login.pc # "raised"

\* C18: the login loop never leaves the test with an exception, every
\* iteration fills its form on the login page, and the test ends with all
\* cases done.
C18_LoopStartsOnLoginPage ==
    /\ login.exc = "none"
    /\ login.pc = "login" => login.url = "login"
    /\ login.pc = "done" => login.i = Len(login.cases)

----------------------------------------------------------------------------
(* Claims about the cart and the product page *)

\* The products in the cart after the add and remove calls of log, from an
\* empty cart.
RECURSIVE InCartAfter(_)
InCartAfter(log) ==
    IF Len(log) = 0 THEN {}
    ELSE LET before == InCartAfter(SubSeq(log, 1, Len(log) - 1))
             c == log[Len(log)] IN
         IF c.op = "add" THEN before \cup {c.name} ELSE before \ {c.name}

\* The last call of the log asked for a button the page cannot show: an
\* add of a product in the cart, or a remove of one that is not.
LastCallOnMissingButton ==
    /\ Len(shop.log) > 0
    /\ LET before == InCartAfter(SubSeq(shop.log, 1, Len(shop.log) - 1))
           c == shop.log[Len(shop.log)] IN
       (c.op = "add") = (c.name \in before)

\* C15: after any sequence of add and remove calls by name from an empty
\* cart, an add of a product not in the cart and a remove of one in it do
\* not raise, get_cart_item_count returns the number of products then in
\* the cart (0 when no badge is shown), verify_cart_badge_count(n) passes
\* exactly when n is that number, and is_product_in_cart(p) is true exactly
\* for the products added and not removed since.
C15_CartCountMatchesCalls ==
    /\ (/\ shop.exc = "TimeoutError"
        /\ shop.last \in {"add_product_to_cart_by_name",
                          "remove_product_from_cart_by_name"})
          => LastCallOnMissingButton
    /\ shop.exc \in {"none", "AssertionError"} => shop.cart = InCartAfter(shop.log)
    /\ shop.obs.m = "get_cart_item_count"
          => shop.obs.ret = Cardinality(InCartAfter(shop.log))
    /\ shop.last = "verify_cart_badge_count"
          => ( (shop.exc = "none") <=> (shop.obs.n = Cardinality(InCartAfter(shop.log))) )
    /\ shop.obs.m = "is_product_in_cart"
          => ( (shop.obs.ret = 1) <=> (shop.obs.text \in InCartAfter(shop.log)) )

C15_Witness ==
    /\ Len(shop.log) = MaxOps
    /\ \E k \in 1..Len(shop.log) : shop.log[k].op = "remove"
    /\ shop.last = "verify_cart_badge_count"
    /\ shop.obs.n = 1
    /\ shop.exc = "none"

\* C16: after a product was added, its page opened with click_product_name
\* and back_to_products called, no exception was raised, the browser is on
\* the inventory page, the product is still in the cart and the badge
\* count is what it was.
C16_CartPersistsAcrossNavigation ==
    shop.last = "back_to_products"
        => /\ shop.exc = "none"
           /\ shop.view = "inventory"
           /\ shop.cart = InCartAfter(shop.log)
           /\ get_cart_item_count(shop) = Cardinality(InCartAfter(shop.log))

\* C17: on the product page verify_product_page_loaded passes, and
\* get_product_details returns the name, description and price shown, the
\* name and price being those get_product_info gave for the product
\* clicked.
C17_DetailsMatchListing ==
    /\ shop.last = "verify_product_page_loaded" => shop.exc = "none"
    /\ shop.last = "get_product_details"
          => /\ shop.exc = "none"
             /\ shop.details.name = shop.item
             /\ shop.info.name = shop.item
                   => /\ shop.details.name = shop.info.name
                      /\ shop.details.price = shop.info.price

----------------------------------------------------------------------------
(* Claims about tests running side by side *)

\* The visibility checks, and the timeouts inside click_element, among the
\* responses the page of an invocation gave it.
VisibleChecks(t) == {k \in DOMAIN t : t[k].op = "visible"}
ClickTimeouts(t) == {k \in DOMAIN t : t[k].op \in {"wait", "act"} /\ t[k].r = "timeout"}

\* C19: with two tests running side by side, each on its own page, the
\* attempt count, the backoff count and the outcome of each invocation of
\* add_to_cart / remove_from_cart are determined by the responses its own
\* page gave it, whatever the other invocation did in between.
C19_InvocationsShareNoState ==
    \A w \in Workers :
        LET i == par.inv[w]
            f == par.frame[FrameOf(w)]
            t == i.trace IN
        i.pc # "Idle" =>
            /\ f.attempt = Cardinality(VisibleChecks(t))
                              + (IF i.pc = "visible" THEN 1 ELSE 0)
            /\ f.sleeps = Cardinality(ClickTimeouts(t))
                              - (IF i.pc = "sleep" THEN 1 ELSE 0)
            /\ i.pc = "Succeeded"
                  <=> (t # <<>> /\ Last(t).op = "act" /\ Last(t).r = "ok")
            /\ i.pc = "Raised"
                  => IF i.error.type = "Exception"
                     THEN /\ Cardinality(VisibleChecks(t)) = retries
                          /\ i.error = LoopFailure(i.method)
                          /\ \/ Last(t).op = "visible" /\ Last(t).r # "ok"
                             \/ Last(t).op \in {"wait", "act"} /\ Last(t).r = "timeout"
                     ELSE /\ Last(t).op \in {"wait", "act"}
                          /\ Last(t).r = "error"
                          /\ i.error = Raise("error")

\* One invocation exhausted its retries after a backoff, the other
\* succeeded at its first attempt.
C19_Witness ==
    /\ par.inv[1].pc = "Raised" /\ par.inv[1].error.type = "Exception"
    /\ par.frame[FrameOf(1)].sleeps >= 1
    /\ par.inv[2].pc = "Succeeded" /\ par.frame[FrameOf(2)].attempt = 1

----------------------------------------------------------------------------
(* Claims about the sort checks *)

\* x comes before y, or equals it, in the order of str.
StrLeq(x, y) == x = y \/ StrLess(x, y)

NonDecreasing(names) == \A k \in 1..(Len(names) - 1) : StrLeq(names[k], names[k + 1])
NonIncreasing(names) == \A k \in 1..(Len(names) - 1) : StrLeq(names[k + 1], names[k])

\* C20: verify_products_sorted_by_name_asc passes exactly when the names
\* displayed are in non-decreasing order, verify_products_sorted_by_name_desc
\* exactly when they are in non-increasing order; otherwise the call raises
\* an assertion failure.
C20_SortChecksDecideOrder ==
    /\ listing.check = "asc" =>
          listing.result = IF NonDecreasing(listing.names)
                           THEN "passed" ELSE "AssertionError"
    /\ listing.check = "desc" =>
          listing.result = IF NonIncreasing(listing.names)
                           THEN "passed" ELSE "AssertionError"

\* The descending check passed on a list of three names, two of them equal
\* and one a prefix of another.
C20_Witness ==
    /\ listing.check = "desc"
    /\ listing.result = "passed"
    /\ listing.names = << <<"a", "b">>, <<"a">>, <<"a">> >>

----------------------------------------------------------------------------
(* Claims about the retry loop, continued *)

\* The button was visible in no attempt of the invocation so far.
NeverVisible == \A k \in DOMAIN trace : ~(trace[k].op = "visible" /\ trace[k].r = "ok")

\* C21: an invocation of add_to_cart / remove_from_cart in which the button
\* is visible in no attempt makes no click and no backoff sleep, and ends,
\* after exactly `retries` visibility checks, in the exception raised after
\* the loop with the message of the method; the product already in the
\* cart (resp. not in it) is one such case.
C21_NeverVisibleExhausts ==
    (method \in Executors /\ NeverVisible) =>
        /\ clicks = 0
        /\ sleeps = 0
        /\ \A k \in DOMAIN trace : trace[k].op = "visible"
        /\ pc # "Succeeded"
        /\ pc = "Raised" =>
              /\ Len(trace) = retries
              /\ error = LoopFailure(method)
              /\ error.args = <<FailureMessage(method)>>

\* add_to_cart exhausted on a product that is already in the cart.
C21_Witness ==
    /\ method = "add_to_cart"
    /\ page.loggedIn /\ page.inCart
    /\ NeverVisible
    /\ pc = "Raised"
    /\ Len(trace) = retries

\* C22: every blocking wait made inside an attempt of add_to_cart /
\* remove_from_cart lasts at most the timeout of the call site, 3000 ms,
\* which lies between 2 and 5 seconds, and every backoff wait lasts one
\* second, whatever the attempt.
C22_WaitsBoundedBackoffConstant ==
    /\ VISIBLE_TIMEOUT >= 2000 /\ VISIBLE_TIMEOUT <= 5000
    /\ \A k \in DOMAIN timed.waits : timed.waits[k].d <= VISIBLE_TIMEOUT
    /\ \A k \in DOMAIN timed.sleeps : timed.sleeps[k].d = 1000

\* C23: every invocation of add_to_cart / remove_from_cart under way ends:
\* in success, in an error of the browser passed to the caller, or in the
\* exception raised after the loop, and it never starts more than `retries`
\* attempts on the way.
C23_InvocationTerminates ==
    /\ (method \in Executors /\ pc \notin Terminal)
          ~> \/ pc = "Succeeded"
             \/ pc = "Raised" /\ error = Raise("error")
             \/ pc = "Raised" /\ error = LoopFailure(method)
    /\ [](method \in Executors /\ pc \notin Terminal => attempt <= retries)

\* An invocation ended in an error of the browser in its second attempt,
\* after one backoff.
C23_Witness ==
    /\ method \in Executors
    /\ pc = "Raised" /\ error = Raise("error")
    /\ attempt = 2 /\ sleeps = 1

----------------------------------------------------------------------------
(* Claims about the fixtures *)

\* The positions in the life of the session where fixture f was set up,
\* and where it was torn down.
Opens(f) == {k \in DOMAIN sess.life : sess.life[k].ev = "open" /\ sess.life[k].f = f}
Closes(f) == {k \in DOMAIN sess.life : sess.life[k].ev = "close" /\ sess.life[k].f = f}

\* Test n is past the teardown of its fixtures.
TornDown(n) ==
    \/ n < sess.test
    \/ n = sess.test /\ sess.phase = "idle"
    \/ n = sess.test /\ sess.phase = "report" /\ sess.report.when = "teardown"

\* C24: in a session of passing and failing tests the browser is launched
\* once and the context created once, before the first page; every test
\* gets a page created for it, closed at the teardown of that test and
\* not before; the test and the screenshot hook use the page only while it
\* is open; the context is closed after every page is closed and the
\* browser after the context.
C24_FixtureLifecycle ==
    /\ \A f \in {"browser", "context"} :
          Cardinality(Opens(f)) <= 1 /\ Cardinality(Closes(f)) <= 1
    /\ \A p \in Opens("page") :
          \E b \in Opens("browser"), c \in Opens("context") : b < c /\ c < p
    /\ \A n \in 1..sess.test :
          /\ Cardinality({k \in Opens("page") : sess.life[k].test = n}) = 1
          /\ Cardinality({k \in Closes("page") : sess.life[k].test = n})
                = (IF TornDown(n) THEN 1 ELSE 0)
          /\ \A o \in Opens("page"), c \in Closes("page") :
                (sess.life[o].test = n /\ sess.life[c].test = n) => o < c
    /\ sess.phase \in {"setup", "call"} => (sess.pageOpen /\ sess.page = sess.test)
    /\ (sess.phase = "report" /\ ShouldCapture(sess.report, TRUE)) => sess.pageOpen
    /\ \A c \in Closes("context") :
          /\ Cardinality(Closes("page")) = Cardinality(Opens("page"))
          /\ \A p \in Closes("page") : p < c
    /\ \A b \in Closes("browser") : \E c \in Closes("context") : c < b

\* A session of two tests, the second failed in its setup, has ended.
C24_Witness ==
    /\ sess.browser = "closed"
    /\ sess.test = 2
    /\ \E k \in DOMAIN sess.reports :
          sess.reports[k].when = "setup" /\ sess.reports[k].failed
    /\ Cardinality(Closes("page")) = 2

----------------------------------------------------------------------------
(* Claims about the page objects, continued *)

\* C26: is_element_visible never raises: the step that runs it leaves the
\* invocation with no exception, goes on as for True exactly when the wait
\* found the element visible and as for False after a timeout or any other
\* error, and changes nothing of the page: no click, no navigation.
C26_VisibilityCheckIsTotal ==
    [][ pc = "visible" =>
          /\ pc' \in {"wait", "for"}
          /\ (pc' = "wait") <=> (Last(trace').r = "ok")
          /\ (pc' = "for") <=> (Last(trace').r \in {"timeout", "error"})
          /\ Last(trace').op = "visible"
          /\ error' = error
          /\ page' = page
          /\ clicks' = clicks ]_vars

\* The check answered False after an error of the browser that was not a
\* timeout, and the invocation went on to its next iteration.
C26_Witness ==
    /\ pc = "for"
    /\ attempt = 1
    /\ Len(trace) = 1
    /\ Last(trace).op = "visible" /\ Last(trace).r = "error"
    /\ error = NoError

\* C27: add_product_to_cart_by_index and get_product_info raise IndexError,
\* with nothing clicked and nothing read, for every index outside
\* 0..count-1, the negative ones included, and act on the item at exactly
\* that position for an index inside the range.
C27_IndexOutOfRangeRaises ==
    LET i == shop.obs.n
        inside == i >= 0 /\ i < Len(Inventory) IN
    /\ shop.last = "get_product_info" =>
          IF inside
          THEN shop.exc = "none" /\ shop.info.name = Inventory[i + 1].name
          ELSE shop.exc = "IndexError" /\ shop.info = NoDetails
    /\ shop.last = "add_product_to_cart_by_index" =>
          IF inside
          THEN shop.exc = "none" => /\ shop.obs.ret = i + 1
                                    /\ Inventory[i + 1].name \in shop.cart
          ELSE shop.exc = "IndexError" /\ shop.cart = InCartAfter(shop.log)

----------------------------------------------------------------------------
(* Claims about the helpers *)

\* C28: get_login_test_cases never raises, whatever is at the path of
\* login_test_data.csv: it returns the rows of the file when the file was
\* there and could be read, and otherwise the 8 default cases, each with a
\* username, a password and an expected_result.
C28_LoginCasesNeverRaise ==
    /\ data.pc # "raised" /\ data.exc = "none"
    /\ data.pc = "returned" =>
          data.result = IF data.existed /\ data.read.status = "ok"
                        THEN data.read.rows ELSE DefaultLoginData
    /\ Len(DefaultLoginData) = 8
    /\ \A k \in DOMAIN DefaultLoginData :
          DOMAIN DefaultLoginData[k] = {"username", "password", "expected_result"}

\* The file was there at the test but cannot be parsed: the default cases
\* came back.
C28_Witness ==
    /\ data.pc = "returned"
    /\ data.existed
    /\ data.read.status = "malformed"
    /\ data.result = DefaultLoginData

\* C29: for every reply of the server, whatever its status and body, get,
\* post, put and delete raise nothing and return status_code, ok, json and
\* headers of the reply: ok is false for the error statuses, 404 among
\* them, and json is the document of a JSON body and the text of the body
\* when the body is empty, as in a 204 reply, or is not JSON.
C29_RepliesBecomeValues ==
    /\ api.resp # NoResponse => api.exc = "none"
    /\ api.pc = "returned" =>
          /\ DOMAIN api.result = {"status_code", "ok", "json", "headers"}
          /\ api.result.status_code = api.resp.status_code
          /\ api.result.ok = (api.resp.status_code \in {200, 201, 204})
          /\ api.result.headers = api.resp.headers
          /\ api.result.json =
                IF api.resp.body.kind = "json"
                THEN [parsed |-> TRUE, of |-> api.resp.body.text]
                ELSE [parsed |-> FALSE, of |-> api.resp.body.text]

\* delete returned the value of a 204 reply with an empty body.
C29_Witness ==
    /\ api.pc = "returned"
    /\ api.verb = "delete"
    /\ api.result.status_code = 204
    /\ api.result.ok
    /\ api.result.json = [parsed |-> FALSE, of |-> ""]

\* C30: assigning to a dict a test-data getter returned never changes the
\* class-level tables: after any sequence of getter calls and assignments
\* to their results the tables are the original ones, and every getter
\* returns for every argument the data it returned at the start.
C30_GettersKeepTables ==
    /\ tables.cls = ClassTables
    /\ \A user_type \in UserTypes :
          get_valid_user(tables.cls, user_type).value
             = get_valid_user(ClassTables, user_type).value
    /\ \A error_type \in LoginErrors :
          get_invalid_user(tables.cls, error_type).value
             = get_invalid_user(ClassTables, error_type).value
    /\ \A name \in LookupNames :
          get_product_by_name(tables.cls, name).value
             = get_product_by_name(ClassTables, name).value
    /\ get_valid_checkout_info(tables.cls).value
          = get_valid_checkout_info(ClassTables).value
    /\ \A error_type \in CheckoutErrors :
          get_invalid_checkout_info(tables.cls, error_type).value
             = get_invalid_checkout_info(ClassTables, error_type).value

====
